---- MODULE Spec2Model ----
(***************************************************************************)
(* Model of the Anthropic <-> AI SDK converter (convert.ts) and of the     *)
(* streaming branch of the /v1/messages handler (index.ts).                *)
(*                                                                         *)
(* Streaming translator: every translator instance is the closure state    *)
(* of one toAnthropicStream() call together with the chunks it enqueued on *)
(* its controller (field out).  One action per case of the switch in       *)
(* transform(), one for start() and one for flush().                       *)
(*                                                                         *)
(* Request normaliser: toModelMessages and its helpers are operators; in   *)
(* SpecNorm a request is composed message by message and block by block    *)
(* from bounded sets, and the function is applied to every request so      *)
(* composed.                                                               *)
(***************************************************************************)
EXTENDS Integers, Sequences, FiniteSets, TLC

(* ------------------------------ bounds --------------------------------- *)

\* stream parts consumed by the single translator of Spec
MaxEvents == 3

\* stream parts consumed in total by the two translators of SpecPair
MaxPairEvents == 2

\* messages of a request in SpecNorm
MaxMsgs == 3

\* content blocks of a request, all messages together, in SpecNorm (string
\* content and an empty block list count as one block)
MaxBlocks == 3

\* tool calls in one backend result
MaxToolCalls == 2

\* entries of the tools array
MaxTools == 3

(* ------------------------------ domains -------------------------------- *)

Inst == {1, 2}

ToolIds == {"t1", "t2"}

\* the tool calls a backend announces: <<id, tool name>>
Calls == {<<"t1", "calc">>, <<"t1", "web_search">>, <<"t2", "web_search">>}

\* the tool calls a backend streams: <<id, tool name>>
StreamedCalls == {<<"t1", "calc">>, <<"t2", "web_search">>}

Texts == {"a", "b"}

\* finish reasons a backend reports
FinishReasons == {"stop", "tool-calls", "content-filter"}

\* an optional number is a sequence of length 0 (undefined/null) or 1
OptTokens == {<<>>, <<5>>}

\* the model name a request carries (request.model)
ModelOf(i) == IF i = 1 THEN "model-1" ELSE "model-2"

(* ------------------------------ frames --------------------------------- *)
\* One SSE chunk handed to controller.enqueue.  All frames share one record
\* shape; fields a frame does not carry hold -1 / "none" / "".

NoFrame ==
  [type |-> "none", index |-> -1, kind |-> "none", id |-> "none",
   name |-> "none", text |-> "", stop |-> "none", tokens |-> 0]

MessageStart(model) ==
  [NoFrame EXCEPT !.type = "message_start", !.name = model]

BlockStart(index, kind, id, name, text) ==
  [NoFrame EXCEPT !.type = "content_block_start", !.index = index,
                  !.kind = kind, !.id = id, !.name = name, !.text = text]

Ping == [NoFrame EXCEPT !.type = "ping"]

BlockDelta(index, kind, text) ==
  [NoFrame EXCEPT !.type = "content_block_delta", !.index = index,
                  !.kind = kind, !.text = text]

BlockStop(index) ==
  [NoFrame EXCEPT !.type = "content_block_stop", !.index = index]

MessageDelta(stop, tokens) ==
  [NoFrame EXCEPT !.type = "message_delta", !.stop = stop, !.tokens = tokens]

MessageStop == [NoFrame EXCEPT !.type = "message_stop"]

Done == [NoFrame EXCEPT !.type = "done"]

(* ------------------------------ stream parts --------------------------- *)
\* One part of result.fullStream.  usage is the optional output token count,
\* hasUsage tells whether a finish-step carries a usage object at all.

NoPart ==
  [type |-> "none", id |-> "none", toolName |-> "none", text |-> "",
   finishReason |-> "none", hasUsage |-> FALSE, usage |-> <<>>,
   sourceType |-> "none", meta |-> "none"]

VARIABLES
  tr,              \* tr[i]: closure state and emitted chunks of translator i
  inp,             \* inp[i]: the stream parts translator i has consumed
  request,         \* the validated request handed to toModelMessages
  availableTools,  \* the allow-list argument: <<>> (undefined) or <<set>>
  modelMessages,   \* the result of toModelMessages
  pc,              \* the normaliser's request: "idle", "build" or "done"
  coreOutput,      \* the backend result handed to toAnthropicResponse
  response,        \* <<>>, or <<r>> with r the result of toAnthropicResponse
  tools,           \* the tools array handed to toTools
  toolSet,         \* <<>>, or <<r>> with r the outcome of toTools(tools)
  modelId,         \* the requested model id, a sequence of words
  env,             \* the three configured overrides, each optional
  resolved,        \* <<>>, or <<r>> with r the result of resolveModelId
  reply,           \* <<>>, or <<r>> with r the handler's HTTP reply
  ANTHROPIC_API_KEY, \* the credential binding: <<>> (unset) or <<string>>
  options          \* <<>>, or <<o>> with o the options handed to the backend

vars ==
  <<tr, inp, request, availableTools, modelMessages, pc, coreOutput, response,
    tools, toolSet, modelId, env, resolved, reply, ANTHROPIC_API_KEY, options>>

normVars == <<request, availableTools, modelMessages, pc>>

respVars == <<coreOutput, response, reply>>

toolVars == <<tools, toolSet, options>>

modelVars == <<modelId, env, resolved, ANTHROPIC_API_KEY>>

(* ------------------------------ translator ----------------------------- *)

\* the closure created by one call of toAnthropicStream(model)
toAnthropicStream(model) ==
  [status |-> "new", model |-> model,
   contentIndex |-> 0, isContentOpen |-> FALSE,
   currentToolId |-> "none", currentWebSearchToolId |-> "none",
   finishReason |-> "stop", outputTokens |-> 0,
   textBlockStarted |-> FALSE, textBlockClosed |-> FALSE,
   hasTextContent |-> FALSE, out |-> <<>>, error |-> <<>>]

\* a translator that no request has constructed
Absent == [toAnthropicStream("none") EXCEPT !.status = "absent"]

enqueue(s, f) == [s EXCEPT !.out = Append(@, f)]

\* faulty variant: the keep-alive frame is left out
startNoPing(s) ==
  LET s1 == enqueue(s, MessageStart(s.model))
      s2 == enqueue(s1, BlockStart(0, "text", "none", "none", ""))
  IN  [s2 EXCEPT !.status = "active", !.textBlockStarted = TRUE]

start(s) ==
  LET s1 == enqueue(s, MessageStart(s.model))
      s2 == enqueue(s1, BlockStart(0, "text", "none", "none", ""))
      s3 == enqueue(s2, Ping)
  IN  [s3 EXCEPT !.status = "active", !.textBlockStarted = TRUE]

\* index: hasTextContent ? (textBlockClosed ? contentIndex : 0) : 0
textStopIndex(s) ==
  IF s.hasTextContent THEN (IF s.textBlockClosed THEN s.contentIndex ELSE 0)
  ELSE 0

\* "Close text block if open", shared by tool-input-start, tool-call, source
closeTextBlock(s) ==
  IF s.textBlockStarted /\ ~s.textBlockClosed
  THEN [enqueue(s, BlockStop(textStopIndex(s))) EXCEPT !.textBlockClosed = TRUE]
  ELSE s

\* "Ensure text block is open", shared by text-delta and reasoning-delta
ensureTextBlock(s) ==
  IF (~s.textBlockStarted \/ s.textBlockClosed) /\ s.textBlockClosed
  THEN [enqueue(s, BlockStart(s.contentIndex + 1, "text", "none", "none", ""))
          EXCEPT !.contentIndex = @ + 1,
                 !.textBlockStarted = TRUE,
                 !.textBlockClosed = FALSE]
  ELSE s

\* index: textBlockClosed ? contentIndex : 0
textDeltaIndex(s) == IF s.textBlockClosed THEN s.contentIndex ELSE 0

onTextStart(s, part) == [s EXCEPT !.hasTextContent = TRUE]

onTextDelta(s, part) ==
  LET s1 == ensureTextBlock([s EXCEPT !.hasTextContent = TRUE])
  IN  enqueue(s1, BlockDelta(textDeltaIndex(s1), "text_delta", part.text))

\* faulty variant: reasoning text is swallowed
onReasoningDeltaSilent(s, part) ==
  ensureTextBlock([s EXCEPT !.hasTextContent = TRUE])

onReasoningDelta(s, part) ==
  LET s1 == ensureTextBlock([s EXCEPT !.hasTextContent = TRUE])
  IN  enqueue(s1, BlockDelta(textDeltaIndex(s1), "text_delta", part.text))

onToolInputStart(s, part) ==
  LET s1 == closeTextBlock(s)
      s2 == [s1 EXCEPT !.contentIndex = @ + 1]
      s3 == enqueue(s2, BlockStart(s2.contentIndex, "tool_use", part.id,
                                   part.toolName, ""))
  IN  [s3 EXCEPT !.isContentOpen = TRUE, !.currentToolId = part.id]

onToolInputDelta(s, part) ==
  IF s.isContentOpen /\ part.id = s.currentToolId
  THEN enqueue(s, BlockDelta(s.contentIndex, "input_json_delta", part.text))
  ELSE s

onToolInputEnd(s, part) ==
  IF s.isContentOpen
  THEN [enqueue(s, BlockStop(s.contentIndex)) EXCEPT !.isContentOpen = FALSE]
  ELSE s

\* faulty variant: the atomic tool block is opened but never closed
onToolCallNoStop(s, part) ==
  LET s1 == closeTextBlock(s)
      s2 == [s1 EXCEPT !.contentIndex = @ + 1,
                       !.currentWebSearchToolId =
                          IF part.toolName = "web_search" THEN part.id ELSE @]
      s3 == enqueue(s2, BlockStart(s2.contentIndex, "tool_use", part.id,
                                   part.toolName, part.text))
  IN  [s3 EXCEPT !.isContentOpen = FALSE]

onToolCall(s, part) ==
  LET s1 == closeTextBlock(s)
      s2 == [s1 EXCEPT !.contentIndex = @ + 1,
                       !.currentWebSearchToolId =
                          IF part.toolName = "web_search" THEN part.id ELSE @]
      s3 == enqueue(s2, BlockStart(s2.contentIndex, "tool_use", part.id,
                                   part.toolName, part.text))
      s4 == enqueue(s3, BlockStop(s3.contentIndex))
  IN  [s4 EXCEPT !.isContentOpen = FALSE]

onFinish(s, part) ==
  [s EXCEPT !.finishReason = part.finishReason,
            !.outputTokens = IF part.usage = <<>> THEN 0 ELSE part.usage[1]]

onFinishStep(s, part) ==
  IF part.hasUsage
  THEN [s EXCEPT !.outputTokens = IF part.usage = <<>> THEN @ ELSE part.usage[1]]
  ELSE s

\* faulty variant: the error is only logged, the stream stays usable
onErrorLogOnly(s, part) == s

\* controller.error(...): the stream is errored; transform and flush are
\* never called again and nothing more can be enqueued
onError(s, part) ==
  [s EXCEPT !.status = "errored", !.error = <<"Stream error: ", part.text>>]

\* encrypted_content || content || part.url
encryptedContent(part) ==
  IF part.meta = "encrypted_content" THEN "enc"
  ELSE IF part.meta = "content" THEN "cnt"
  ELSE "url"

\* faulty variant: the citation block reuses the current index
onSourceSameIndex(s, part) ==
  IF part.sourceType = "url"
  THEN LET toolUseId == IF s.currentWebSearchToolId # "none"
                        THEN s.currentWebSearchToolId
                        ELSE "web_search_uuid"
           s1 == closeTextBlock(s)
           s3 == enqueue(s1, BlockStart(s1.contentIndex,
                                        "web_search_tool_result", toolUseId,
                                        "none", encryptedContent(part)))
       IN  enqueue(s3, BlockStop(s3.contentIndex))
  ELSE s

onSource(s, part) ==
  IF part.sourceType = "url"
  THEN LET toolUseId == IF s.currentWebSearchToolId # "none"
                        THEN s.currentWebSearchToolId
                        ELSE "web_search_uuid"
           s1 == closeTextBlock(s)
           s2 == [s1 EXCEPT !.contentIndex = @ + 1]
           s3 == enqueue(s2, BlockStart(s2.contentIndex,
                                        "web_search_tool_result", toolUseId,
                                        "none", encryptedContent(part)))
       IN  enqueue(s3, BlockStop(s3.contentIndex))
  ELSE s

\* faulty variant: an ignored part is answered with a keep-alive frame
onIgnoredPing(s, part) == enqueue(s, Ping)

\* text-end, reasoning-end, tool-result, tool-error, start, start-step,
\* abort and the default arm: break without touching state or controller
onIgnored(s, part) == s

IgnoredTypes == {"tool-result", "start"}

transform(s, part) ==
  CASE part.type \in {"text-start", "reasoning-start"} -> onTextStart(s, part)
    [] part.type = "text-delta"       -> onTextDelta(s, part)
    [] part.type = "reasoning-delta"  -> onReasoningDelta(s, part)
    [] part.type = "tool-input-start" -> onToolInputStart(s, part)
    [] part.type = "tool-input-delta" -> onToolInputDelta(s, part)
    [] part.type = "tool-input-end"   -> onToolInputEnd(s, part)
    [] part.type = "tool-call"        -> onToolCall(s, part)
    [] part.type = "finish"           -> onFinish(s, part)
    [] part.type = "finish-step"      -> onFinishStep(s, part)
    [] part.type = "error"            -> onError(s, part)
    [] part.type = "source"           -> onSource(s, part)
    [] OTHER                          -> onIgnored(s, part)

\* stopReasonMap[finishReason] || "end_turn"
stopReasonMap(reason) ==
  CASE reason = "stop"           -> "end_turn"
    [] reason = "length"         -> "max_tokens"
    [] reason = "content-filter" -> "content_filter"
    [] reason = "tool-calls"     -> "tool_use"
    [] reason = "error"          -> "error"
    [] reason = "other"          -> "stop_sequence"
    [] reason = "unknown"        -> "end_turn"
    [] OTHER                     -> "end_turn"

\* faulty variant: finalization runs but leaves the stream open for a second flush
flushTwice(s) ==
  LET s1 == IF s.isContentOpen
            THEN enqueue(s, BlockStop(s.contentIndex)) ELSE s
      s2 == IF s1.textBlockStarted /\ ~s1.textBlockClosed
            THEN enqueue(s1, BlockStop(textStopIndex(s1))) ELSE s1
      s3 == enqueue(s2, MessageDelta(stopReasonMap(s2.finishReason),
                                     s2.outputTokens))
      s4 == enqueue(s3, MessageStop)
  IN  enqueue(s4, Done)

flush(s) ==
  LET s1 == IF s.isContentOpen
            THEN enqueue(s, BlockStop(s.contentIndex)) ELSE s
      s2 == IF s1.textBlockStarted /\ ~s1.textBlockClosed
            THEN enqueue(s1, BlockStop(textStopIndex(s1))) ELSE s1
      s3 == enqueue(s2, MessageDelta(stopReasonMap(s2.finishReason),
                                     s2.outputTokens))
      s4 == enqueue(s3, MessageStop)
      s5 == enqueue(s4, Done)
  IN  [s5 EXCEPT !.status = "closed"]

(* ------------------------------ actions -------------------------------- *)

\* faulty variant: contentIndex is one module-level variable shared by all requests
closureShared(i) == [tr[i] EXCEPT !.contentIndex = tr[1].contentIndex]

\* the closure state translator i reads and writes
closure(i) == tr[i]

EventBound == IF tr[2].status = "absent" THEN MaxEvents ELSE MaxPairEvents

CanConsume(i) ==
  /\ tr[i].status = "active"
  /\ Len(inp[1]) + Len(inp[2]) < EventBound

\* translator i consumes part: one call of transform(part, controller)
Consume(i, part, next) ==
  /\ CanConsume(i)
  /\ tr' = [tr EXCEPT ![i] = next]
  /\ inp' = [inp EXCEPT ![i] = Append(@, part)]
  /\ UNCHANGED <<normVars, respVars, toolVars, modelVars>>

Start(i) ==
  /\ tr[i].status = "new"
  /\ tr' = [tr EXCEPT ![i] = start(closure(i))]
  /\ UNCHANGED <<inp, normVars, respVars, toolVars, modelVars>>

TextStart(i) ==
  LET part == [NoPart EXCEPT !.type = "text-start"]
  IN  Consume(i, part, onTextStart(closure(i), part))

TextDelta(i) ==
  \E t \in Texts :
    LET part == [NoPart EXCEPT !.type = "text-delta", !.text = t]
    IN  Consume(i, part, onTextDelta(closure(i), part))

ReasoningDelta(i) ==
  \E t \in {"r"} :
    LET part == [NoPart EXCEPT !.type = "reasoning-delta", !.text = t]
    IN  Consume(i, part, onReasoningDelta(closure(i), part))

ToolInputStart(i) ==
  \E c \in StreamedCalls :
    LET part == [NoPart EXCEPT !.type = "tool-input-start", !.id = c[1],
                               !.toolName = c[2]]
    IN  Consume(i, part, onToolInputStart(closure(i), part))

ToolInputDelta(i) ==
  \E id \in ToolIds :
    LET part == [NoPart EXCEPT !.type = "tool-input-delta", !.id = id,
                               !.text = "{"]
    IN  Consume(i, part, onToolInputDelta(closure(i), part))

ToolInputEnd(i) ==
  LET part == [NoPart EXCEPT !.type = "tool-input-end"]
  IN  Consume(i, part, onToolInputEnd(closure(i), part))

ToolCall(i) ==
  \E c \in Calls :
    LET part == [NoPart EXCEPT !.type = "tool-call", !.id = c[1],
                               !.toolName = c[2], !.text = "{}"]
    IN  Consume(i, part, onToolCall(closure(i), part))

Finish(i) ==
  \E r \in FinishReasons, u \in OptTokens :
    /\ (u = <<>> => r = "stop")
    /\ LET part == [NoPart EXCEPT !.type = "finish", !.finishReason = r,
                                  !.hasUsage = (u # <<>>), !.usage = u]
       IN  Consume(i, part, onFinish(closure(i), part))

FinishStep(i) ==
  \E h \in BOOLEAN, u \in {<<>>, <<7>>} :
    /\ (~h => u = <<>>)
    /\ LET part == [NoPart EXCEPT !.type = "finish-step", !.hasUsage = h,
                                  !.usage = u]
       IN  Consume(i, part, onFinishStep(closure(i), part))

Error(i) ==
  LET part == [NoPart EXCEPT !.type = "error", !.text = "boom"]
  IN  Consume(i, part, onError(closure(i), part))

Abort(i) ==
  LET part == [NoPart EXCEPT !.type = "abort"]
  IN  Consume(i, part, onIgnored(closure(i), part))

Source(i) ==
  \E st \in {"url", "document"}, m \in {"none", "encrypted_content"} :
    /\ (st # "url" => m = "none")
    /\ LET part == [NoPart EXCEPT !.type = "source", !.sourceType = st,
                                  !.meta = m]
       IN  Consume(i, part, onSource(closure(i), part))

Ignored(i) ==
  \E ty \in IgnoredTypes :
    LET part == [NoPart EXCEPT !.type = ty]
    IN  Consume(i, part, onIgnored(closure(i), part))

Unknown(i) ==
  LET part == [NoPart EXCEPT !.type = "raw"]
  IN  Consume(i, part, onIgnored(closure(i), part))

\* the upstream closes: the writable side closes and flush() runs
Flush(i) ==
  /\ tr[i].status = "active"
  /\ tr' = [tr EXCEPT ![i] = flush(closure(i))]
  /\ UNCHANGED <<inp, normVars, respVars, toolVars, modelVars>>

(* ------------------------------ request normaliser --------------------- *)
\* A content block of the wire protocol (ContentBlockSchema); fields a block
\* type does not carry hold "none" / FALSE.

NoBlock ==
  [type |-> "none", text |-> "", id |-> "none", name |-> "none",
   is_error |-> FALSE, media_type |-> "none", data |-> "none"]

TextBlock(t) == [NoBlock EXCEPT !.type = "text", !.text = t]

ImageBlock(mt, d) ==
  [NoBlock EXCEPT !.type = "image", !.media_type = mt, !.data = d]

ToolUseBlock(id, name) ==
  [NoBlock EXCEPT !.type = "tool_use", !.id = id, !.name = name]

ToolResultBlock(id, err) ==
  [NoBlock EXCEPT !.type = "tool_result", !.id = id, !.text = "ok",
                  !.is_error = err]

\* message content: the string shorthand or a block list
StringContent(t) == [kind |-> "string", str |-> t, blocks |-> <<>>]

BlockContent(bs) == [kind |-> "blocks", str |-> "", blocks |-> bs]

\* A part of a generic message; one record shape for all part types.
NoPartOut ==
  [type |-> "none", text |-> "", image |-> <<>>, toolCallId |-> "none",
   toolName |-> "none", outputType |-> "none", isError |-> FALSE]

TextPart(t) == [NoPartOut EXCEPT !.type = "text", !.text = t]

ImagePart(mt, d) ==
  [NoPartOut EXCEPT !.type = "image",
                    !.image = <<"data:", mt, ";base64,", d>>]

ToolCallPart(id, name) ==
  [NoPartOut EXCEPT !.type = "tool-call", !.toolCallId = id, !.toolName = name]

ToolResultPart(id, name, value, err) ==
  [NoPartOut EXCEPT !.type = "tool-result", !.toolCallId = id,
                    !.toolName = name, !.text = value,
                    !.outputType = IF err THEN "error-text" ELSE "text",
                    !.isError = err]

\* A generic message.  A system message carries its string in field text (a
\* sequence of string pieces), every other message its parts in content.
ModelMessage(role, content) == [role |-> role, content |-> content, text |-> <<>>]

SystemMessage(str) == [role |-> "system", content |-> <<>>, text |-> str]

\* faulty variant: the string shorthand is taken for an empty block list
normalizeContentToArrayEmpty(content) == content.blocks

normalizeContentToArray(content) ==
  IF content.kind = "string" THEN <<TextBlock(content.str)>>
  ELSE content.blocks

RECURSIVE joinLines(_)
joinLines(lines) ==
  IF lines = <<>> THEN <<>>
  ELSE IF Len(lines) = 1 THEN Head(lines)
  ELSE Head(lines) \o <<"\n">> \o joinLines(Tail(lines))

\* system is <<>> (absent) or <<c>> with c the string or the block list; a
\* string is a sequence of pieces, the empty string the empty sequence
toSystemContent(system) ==
  IF system.kind = "string" THEN system.str
  ELSE joinLines([k \in 1..Len(system.blocks) |->
                    IF system.blocks[k].type = "text"
                    THEN system.blocks[k].text ELSE <<>>])

\* currentToolContext.get(id) || "unknown_tool"
toolNameOf(ctx, id) == IF id \in DOMAIN ctx THEN ctx[id] ELSE "unknown_tool"

\* faulty variant: without allow-list every tool is taken for unavailable
unavailableByDefault(avail, name) == avail = <<>> \/ name \notin avail[1]

\* faulty variant: the allow-list is never consulted
unavailableNever(avail, name) == FALSE

\* availableTools && !availableTools.has(name)
unavailable(avail, name) == avail # <<>> /\ name \notin avail[1]

RECURSIVE processUserContentBlocks(_, _, _, _)
processUserContentBlocks(content, ctx, avail, acc) ==
  IF content = <<>> THEN acc
  ELSE
    LET block == Head(content)
        rest  == Tail(content)
    IN  IF block.type = "text"
        THEN processUserContentBlocks(rest, ctx, avail,
               [acc EXCEPT !.userContent = Append(@, TextPart(block.text))])
        ELSE IF block.type = "image"
        THEN processUserContentBlocks(rest, ctx, avail,
               [acc EXCEPT !.userContent =
                  Append(@, ImagePart(block.media_type, block.data))])
        ELSE IF block.type = "tool_result"
        THEN LET toolName == toolNameOf(ctx, block.id)
             IN  IF unavailable(avail, toolName)
                 THEN processUserContentBlocks(rest, ctx, avail, acc)
                 ELSE processUserContentBlocks(rest, ctx, avail,
                        [acc EXCEPT !.toolMessages =
                           Append(@, ModelMessage("tool",
                             <<ToolResultPart(block.id, toolName, block.text,
                                              block.is_error)>>))])
        ELSE processUserContentBlocks(rest, ctx, avail, acc)

RECURSIVE processAssistantContentBlocks(_, _)
processAssistantContentBlocks(content, avail) ==
  IF content = <<>> THEN <<>>
  ELSE
    LET block == Head(content)
        rest  == processAssistantContentBlocks(Tail(content), avail)
    IN  IF block.type = "text" THEN <<TextPart(block.text)>> \o rest
        ELSE IF block.type = "tool_use"
        THEN IF unavailable(avail, block.name) THEN rest
             ELSE <<ToolCallPart(block.id, block.name)>> \o rest
        ELSE rest

\* a Map as a function on the ids set so far; a later set() of an id wins
RECURSIVE extractToolContext(_)
extractToolContext(content) ==
  IF content = <<>> THEN <<>>
  ELSE
    LET n     == Len(content)
        block == content[n]
        ctx   == extractToolContext(SubSeq(content, 1, n - 1))
    IN  IF block.type = "tool_use"
        THEN [id \in (DOMAIN ctx) \cup {block.id} |->
                IF id = block.id THEN block.name ELSE ctx[id]]
        ELSE ctx

\* the loop state of toModelMessages
LoopState(msgs, ctx) == [modelMessages |-> msgs, currentToolContext |-> ctx]

\* faulty variant: the user message is pushed before its tool messages
userTurnToolsLast(st, msg, avail) ==
  LET content == normalizeContentToArray(msg.content)
      res == processUserContentBlocks(content, st.currentToolContext, avail,
               [userContent |-> <<>>, toolMessages |-> <<>>])
      withUser == IF Len(res.userContent) > 0
                  THEN Append(st.modelMessages,
                              ModelMessage("user", res.userContent))
                  ELSE st.modelMessages
  IN  [st EXCEPT !.modelMessages = withUser \o res.toolMessages]

\* faulty variant: tool results are not filtered by the allow-list
userTurnUnfiltered(st, msg, avail) ==
  LET content == normalizeContentToArray(msg.content)
      res == processUserContentBlocks(content, st.currentToolContext, <<>>,
               [userContent |-> <<>>, toolMessages |-> <<>>])
      withTools == st.modelMessages \o res.toolMessages
  IN  [st EXCEPT !.modelMessages =
         IF Len(res.userContent) > 0
         THEN Append(withTools, ModelMessage("user", res.userContent))
         ELSE withTools]

\* the body of the loop for msg.role === "user"
userTurn(st, msg, avail) ==
  LET content == normalizeContentToArray(msg.content)
      res == processUserContentBlocks(content, st.currentToolContext, avail,
               [userContent |-> <<>>, toolMessages |-> <<>>])
      withTools == st.modelMessages \o res.toolMessages
  IN  [st EXCEPT !.modelMessages =
         IF Len(res.userContent) > 0
         THEN Append(withTools, ModelMessage("user", res.userContent))
         ELSE withTools]

\* faulty variant: the assistant message is pushed even when nothing is left of it
assistantTurnKeepEmpty(st, msg, avail) ==
  LET content == normalizeContentToArray(msg.content)
      assistantContent == processAssistantContentBlocks(content, avail)
  IN  LoopState(Append(st.modelMessages,
                       ModelMessage("assistant", assistantContent)),
                extractToolContext(content))

\* faulty variant: the new tool context is merged into the old one
assistantTurnMergeContext(st, msg, avail) ==
  LET content == normalizeContentToArray(msg.content)
      assistantContent == processAssistantContentBlocks(content, avail)
      old == st.currentToolContext
      new == extractToolContext(content)
  IN  LoopState(IF Len(assistantContent) > 0
                THEN Append(st.modelMessages,
                            ModelMessage("assistant", assistantContent))
                ELSE st.modelMessages,
                [id \in (DOMAIN old) \cup (DOMAIN new) |->
                   IF id \in DOMAIN new THEN new[id] ELSE old[id]])

\* the body of the loop for msg.role === "assistant"
assistantTurn(st, msg, avail) ==
  LET content == normalizeContentToArray(msg.content)
      assistantContent == processAssistantContentBlocks(content, avail)
  IN  LoopState(IF Len(assistantContent) > 0
                THEN Append(st.modelMessages,
                            ModelMessage("assistant", assistantContent))
                ELSE st.modelMessages,
                extractToolContext(content))

RECURSIVE messageLoop(_, _, _)
messageLoop(st, msgs, avail) ==
  IF msgs = <<>> THEN st
  ELSE
    LET msg == Head(msgs)
        st1 == IF msg.role = "user" THEN userTurn(st, msg, avail)
               ELSE IF msg.role = "assistant" THEN assistantTurn(st, msg, avail)
               ELSE st
    IN  messageLoop(st1, Tail(msgs), avail)

\* if (request.system): undefined and the empty string are falsy
hasSystem(req) ==
  /\ req.system # <<>>
  /\ ~(req.system[1].kind = "string" /\ req.system[1].str = <<>>)

toModelMessages(req, avail) ==
  LET first == IF hasSystem(req)
               THEN <<SystemMessage(toSystemContent(req.system[1]))>>
               ELSE <<>>
  IN  messageLoop(LoopState(first, <<>>), req.messages, avail).modelMessages


(* ------------------------------ request domain ------------------------- *)

\* the blocks drawn for a user message: what the schema admits there, with
\* one tool_use block standing for the blocks the user branch skips
UserBlocks ==
  {TextBlock("a"), ImageBlock("image/png", "AAAA"),
   ToolResultBlock("t1", FALSE), ToolResultBlock("t2", TRUE),
   ToolUseBlock("t1", "calc")}

\* the blocks drawn for an assistant message, with one tool_result block
\* standing for the blocks the assistant branch skips
AssistantBlocks ==
  {TextBlock("a"), ToolUseBlock("t1", "calc"), ToolUseBlock("t2", "web_search"),
   ToolUseBlock("t1", "web_search"), ToolResultBlock("t1", FALSE)}

BlocksFor(role) == IF role = "user" THEN UserBlocks ELSE AssistantBlocks

Strings == {"", "b"}

Roles == {"user", "assistant"}

\* a request without system field
Request(ms) == [system |-> <<>>, messages |-> ms]

\* The system field: a string (the sequence of its pieces, the empty string
\* the empty sequence) or a list of records, of which only type and text
\* are read.
SystemString(str) == [kind |-> "string", str |-> str, blocks |-> <<>>]

SystemBlocks(bs) == [kind |-> "blocks", str |-> <<>>, blocks |-> bs]

SystemBlockValues ==
  {[type |-> "text", text |-> <<"p">>], [type |-> "cache", text |-> <<>>]}

SystemStrings == {<<>>, <<"s">>}

\* the blocks the system field counts for: none when absent, else at least one
SystemSize(system) ==
  IF system = <<>> THEN 0
  ELSE IF system[1].kind = "string" \/ system[1].blocks = <<>> THEN 1
  ELSE Len(system[1].blocks)

\* the content blocks of a message list, string content and an empty block
\* list counting as one
RECURSIVE BlockCount(_)
BlockCount(ms) ==
  IF ms = <<>> THEN 0
  ELSE (IF Head(ms).content.kind = "string" \/ Head(ms).content.blocks = <<>>
        THEN 1
        ELSE Len(Head(ms).content.blocks)) + BlockCount(Tail(ms))

\* the allow-list argument: undefined, or the names of the declared tools
AllowLists == {<<>>, <<{}>>, <<{"calc"}>>}

\* The client composes the request: the system field, a string or an empty
\* list, before the first message.
SetSystem ==
  /\ pc = "build"
  /\ request.system = <<>>
  /\ request.messages = <<>>
  /\ \E c \in {SystemBlocks(<<>>)} \cup {SystemString(t) : t \in SystemStrings} :
       request' = [request EXCEPT !.system = <<c>>]
  /\ UNCHANGED <<tr, inp, availableTools, modelMessages, pc, respVars, toolVars, modelVars>>

\* The client composes the request: one more block in the system list; one
\* block is left for the first message.
AddSystemBlock ==
  /\ pc = "build"
  /\ request.system # <<>>
  /\ request.messages = <<>>
  /\ request.system[1].kind = "blocks"
  /\ Len(request.system[1].blocks) < MaxBlocks - 1
  /\ \E b \in SystemBlockValues :
       request' = [request EXCEPT !.system[1].blocks = Append(@, b)]
  /\ UNCHANGED <<tr, inp, availableTools, modelMessages, pc, respVars, toolVars, modelVars>>

\* The client composes the request: one more message, with string content
\* or with an empty block list.
AddMessage ==
  /\ pc = "build"
  /\ Len(request.messages) < MaxMsgs
  /\ BlockCount(request.messages) + SystemSize(request.system) < MaxBlocks
  /\ \E r \in Roles :
       \E c \in {BlockContent(<<>>)} \cup {StringContent(t) : t \in Strings} :
         request' = [request EXCEPT !.messages =
                       Append(@, [role |-> r, content |-> c])]
  /\ UNCHANGED <<tr, inp, availableTools, modelMessages, pc, respVars, toolVars, modelVars>>

\* The client composes the request: one more block in the last message.
AddBlock ==
  /\ pc = "build"
  /\ request.messages # <<>>
  /\ LET n   == Len(request.messages)
         msg == request.messages[n]
     IN  /\ msg.content.kind = "blocks"
         /\ \/ msg.content.blocks = <<>>
            \/ BlockCount(request.messages) + SystemSize(request.system) < MaxBlocks
         /\ \E b \in BlocksFor(msg.role) :
              request' = [request EXCEPT !.messages[n].content.blocks =
                            Append(@, b)]
  /\ UNCHANGED <<tr, inp, availableTools, modelMessages, pc, respVars, toolVars, modelVars>>

\* The handler receives the request (at least one message) and calls
\* toModelMessages(request, availableTools).
Normalize ==
  /\ pc = "build"
  /\ Len(request.messages) >= 1
  /\ \E avail \in AllowLists :
       /\ availableTools' = avail
       /\ modelMessages' = toModelMessages(request, avail)
  /\ pc' = "done"
  /\ UNCHANGED <<tr, inp, request, respVars, toolVars, modelVars>>

(* ------------------------------ response assembler --------------------- *)
\* An optional value is <<>> (undefined) or <<v>>.  A JSON object is named
\* by the string of its text; "{}" is the empty object.

\* a || b on optional strings: undefined and the empty string are falsy
orElse(a, b) == IF a # <<>> /\ a[1] # "" THEN a ELSE b

\* a || b on optional objects: every object is truthy
orElseObject(a, b) == IF a # <<>> THEN a ELSE b

\* n || 0 on an optional number
orZero(n) == IF n # <<>> THEN n[1] ELSE 0

FINISH_REASON_MAP ==
  [reason \in {"stop", "length", "tool-calls", "content-filter", "stop-sequence"} |->
     CASE reason = "stop"           -> "end_turn"
       [] reason = "length"         -> "max_tokens"
       [] reason = "tool-calls"     -> "tool_use"
       [] reason = "content-filter" -> "end_turn"
       [] reason = "stop-sequence"  -> "stop_sequence"]

DEFAULT_FINISH_REASON == "end_turn"

\* faulty variant: a reason outside the table gives no stop reason
mapFinishReasonNull(reason) ==
  IF reason = <<>> \/ reason[1] = "" THEN DEFAULT_FINISH_REASON
  ELSE IF reason[1] \in DOMAIN FINISH_REASON_MAP
       THEN FINISH_REASON_MAP[reason[1]]
       ELSE "null"

mapFinishReason(reason) ==
  IF reason = <<>> \/ reason[1] = "" THEN DEFAULT_FINISH_REASON
  ELSE IF reason[1] \in DOMAIN FINISH_REASON_MAP
       THEN FINISH_REASON_MAP[reason[1]]
       ELSE DEFAULT_FINISH_REASON

\* the usage object of the backend result; every field is optional
Usage(inTok, outTok, cacheCreation, cacheRead) ==
  [inputTokens |-> inTok, outputTokens |-> outTok,
   cacheCreationInputTokens |-> cacheCreation,
   cacheReadInputTokens |-> cacheRead]

\* faulty variant: the cache fields are defaulted like the token counts
buildUsageObjectDefaulted(usage) ==
  LET u == IF usage = <<>> THEN Usage(<<>>, <<>>, <<>>, <<>>) ELSE usage[1]
  IN  [input_tokens |-> orZero(u.inputTokens),
       output_tokens |-> orZero(u.outputTokens),
       cache_creation_input_tokens |-> <<orZero(u.cacheCreationInputTokens)>>,
       cache_read_input_tokens |-> <<orZero(u.cacheReadInputTokens)>>]

\* usage is the optional usage object; the two cache fields of the result
\* are optional
buildUsageObject(usage) ==
  LET u == IF usage = <<>> THEN Usage(<<>>, <<>>, <<>>, <<>>) ELSE usage[1]
  IN  [input_tokens |-> orZero(u.inputTokens),
       output_tokens |-> orZero(u.outputTokens),
       cache_creation_input_tokens |-> u.cacheCreationInputTokens,
       cache_read_input_tokens |-> u.cacheReadInputTokens]

\* a tool call of the backend result, in the current shape (toolCallId,
\* toolName, input) or the older one (id, name, args)
ToolCallResult(toolCallId, id, toolName, name, input, args) ==
  [toolCallId |-> toolCallId, id |-> id, toolName |-> toolName,
   name |-> name, input |-> input, args |-> args]

\* a content block of the response; name and input are optional values
ResponseTextBlock(text) ==
  [type |-> "text", text |-> text, id |-> "none", name |-> <<>>, input |-> <<>>]

ResponseToolUseBlock(id, name, input) ==
  [type |-> "tool_use", text |-> "", id |-> id, name |-> name, input |-> input]

\* "toolu_" + uuid() and generateAnthropicId(): fresh identifiers
FreshToolId == "toolu_uuid"

generateAnthropicId == "msg_timestamp_random"

toolUseOf(toolCall) ==
  ResponseToolUseBlock(
    orElse(orElse(toolCall.toolCallId, toolCall.id), <<FreshToolId>>)[1],
    orElse(toolCall.toolName, toolCall.name),
    orElseObject(toolCall.input, toolCall.args))

\* the blocks pushed by the loop over coreOutput.toolCalls
toolUseBlocks(toolCalls) ==
  IF toolCalls = <<>> THEN <<>>
  ELSE [k \in 1..Len(toolCalls[1]) |-> toolUseOf(toolCalls[1][k])]

\* faulty variant: the text block is pushed after the tool_use blocks
toAnthropicResponseTextLast(out, model, requestId) ==
  LET text == IF out.text # <<>> /\ out.text[1] # ""
              THEN <<ResponseTextBlock(out.text[1])>> ELSE <<>>
  IN  [id |-> orElse(requestId, <<generateAnthropicId>>)[1],
       type |-> "message", role |-> "assistant",
       content |-> toolUseBlocks(out.toolCalls) \o text,
       model |-> model,
       stop_reason |-> mapFinishReason(out.finishReason),
       stop_sequence |-> "null",
       usage |-> buildUsageObject(out.usage)]

toAnthropicResponse(out, model, requestId) ==
  LET text == IF out.text # <<>> /\ out.text[1] # ""
              THEN <<ResponseTextBlock(out.text[1])>> ELSE <<>>
  IN  [id |-> orElse(requestId, <<generateAnthropicId>>)[1],
       type |-> "message", role |-> "assistant",
       content |-> text \o toolUseBlocks(out.toolCalls),
       model |-> model,
       stop_reason |-> mapFinishReason(out.finishReason),
       stop_sequence |-> "null",
       usage |-> buildUsageObject(out.usage)]

(* ------------------------------ backend results ------------------------ *)

\* the backend result before the backend has filled anything in
NoOutput ==
  [text |-> <<>>, toolCalls |-> <<>>, usage |-> <<>>, finishReason |-> <<>>]

ResultTexts == {"", "hi"}

\* tool calls in the current shape, with and without input, in the older
\* shape, and with no id at all
ToolCallResults ==
  {ToolCallResult(<<"t1">>, <<>>, <<"calc">>, <<>>, <<"{x:1}">>, <<>>),
   ToolCallResult(<<"t2">>, <<>>, <<"calc">>, <<>>, <<"{}">>, <<>>),
   ToolCallResult(<<>>, <<"t9">>, <<>>, <<"calc">>, <<>>, <<"{y:2}">>),
   ToolCallResult(<<>>, <<>>, <<"calc">>, <<>>, <<>>, <<>>),
   ToolCallResult(<<"t1">>, <<"t9">>, <<"calc">>, <<"other">>, <<"{x:1}">>, <<"{y:2}">>)}

Usages ==
  {Usage(<<>>, <<>>, <<>>, <<>>),
   Usage(<<7>>, <<3>>, <<>>, <<>>),
   Usage(<<7>>, <<3>>, <<0>>, <<5>>),
   Usage(<<0>>, <<0>>, <<5>>, <<>>),
   Usage(<<>>, <<4>>, <<>>, <<0>>),
   Usage(<<7>>, <<>>, <<2>>, <<0>>)}

\* the finish reasons of the backend, the one more key of the table, and
\* the empty string
ResultFinishReasons ==
  {"stop", "length", "tool-calls", "content-filter", "stop-sequence",
   "error", "other", "unknown", ""}

RequestIds == {<<>>, <<"req1">>}

\* The backend fills in the result, one field at a time.
SetText ==
  /\ response = <<>>
  /\ reply = <<>>
  /\ coreOutput.text = <<>>
  /\ \E t \in ResultTexts : coreOutput' = [coreOutput EXCEPT !.text = <<t>>]
  /\ UNCHANGED <<tr, inp, normVars, toolVars, modelVars, response, reply>>

SetToolCalls ==
  /\ response = <<>>
  /\ reply = <<>>
  /\ coreOutput.toolCalls = <<>>
  /\ coreOutput' = [coreOutput EXCEPT !.toolCalls = << <<>> >>]
  /\ UNCHANGED <<tr, inp, normVars, toolVars, modelVars, response, reply>>

AddToolCall ==
  /\ response = <<>>
  /\ reply = <<>>
  /\ coreOutput.toolCalls # <<>>
  /\ Len(coreOutput.toolCalls[1]) < MaxToolCalls
  /\ \E tc \in ToolCallResults :
       coreOutput' = [coreOutput EXCEPT !.toolCalls[1] = Append(@, tc)]
  /\ UNCHANGED <<tr, inp, normVars, toolVars, modelVars, response, reply>>

SetUsage ==
  /\ response = <<>>
  /\ reply = <<>>
  /\ coreOutput.usage = <<>>
  /\ \E u \in Usages : coreOutput' = [coreOutput EXCEPT !.usage = <<u>>]
  /\ UNCHANGED <<tr, inp, normVars, toolVars, modelVars, response, reply>>

SetFinishReason ==
  /\ response = <<>>
  /\ reply = <<>>
  /\ coreOutput.finishReason = <<>>
  /\ \E r \in ResultFinishReasons :
       coreOutput' = [coreOutput EXCEPT !.finishReason = <<r>>]
  /\ UNCHANGED <<tr, inp, normVars, toolVars, modelVars, response, reply>>

\* One call toAnthropicResponse(coreOutput, model, requestId).
Assemble ==
  /\ response = <<>>
  /\ reply = <<>>
  /\ \E requestId \in RequestIds :
       response' = <<toAnthropicResponse(coreOutput, ModelOf(1), requestId)>>
  /\ UNCHANGED <<tr, inp, normVars, toolVars, modelVars, coreOutput, reply>>

(* ------------------------------ handler replies ------------------------ *)
\* createErrorResponse(type, message): the optional details are left out; a
\* message is the sequence of the parts of its template
createErrorResponse(type, message) ==
  [type |-> "error", error |-> [type |-> type, message |-> message]]

\* c.json(body, status); the status defaults to 200
json(body, status) == [status |-> status, body |-> body]

StopReasons == {"end_turn", "max_tokens", "stop_sequence", "tool_use"}

ResponseContentBlockSchema(block) ==
  \/ block.type = "text"
  \/ /\ block.type = "tool_use"
     /\ block.name # <<>>
     /\ block.input # <<>>

UsageSchema(usage) ==
  /\ usage.input_tokens >= 0
  /\ usage.output_tokens >= 0
  /\ usage.cache_creation_input_tokens # <<>> =>
       usage.cache_creation_input_tokens[1] >= 0
  /\ usage.cache_read_input_tokens # <<>> =>
       usage.cache_read_input_tokens[1] >= 0

\* AnthropicResponseSchema.safeParse(r).success; a response that passes has
\* no key the schema does not know, so the parsed data is the response
AnthropicResponseSchema(r) ==
  /\ r.id # ""
  /\ r.type = "message"
  /\ r.role = "assistant"
  /\ \A k \in 1..Len(r.content) : ResponseContentBlockSchema(r.content[k])
  /\ r.model # ""
  /\ r.stop_reason \in StopReasons \cup {"null"}
  /\ UsageSchema(r.usage)

\* what a throw inside the handler carries: an Error with its message, or
\* some other value
Thrown == {<<"fetch failed">>, <<>>}

\* faulty variant: the assembled response is returned without validation
ValidatedReplyUnchecked(r) == json(r, 200)

ValidatedReply(r) ==
  IF AnthropicResponseSchema(r)
    THEN json(r, 200)
    ELSE json(createErrorResponse("api_error",
                <<"Generated response does not match Anthropic specification">>), 500)

\* the request body fails AnthropicApiRequestSchema
RejectRequest ==
  /\ reply = <<>>
  /\ response = <<>>
  /\ coreOutput = NoOutput
  /\ reply' = <<json(createErrorResponse("invalid_request_error",
                  <<"Invalid request format. Ensure your request matches the Anthropic Claude API specification">>), 400)>>
  /\ UNCHANGED <<tr, inp, normVars, toolVars, modelVars, coreOutput, response>>

\* anything thrown between c.req.json() and the reply lands in the catch
CatchThrown ==
  /\ reply = <<>>
  /\ response = <<>>
  /\ \E error \in Thrown :
       LET errorMessage == IF error # <<>> THEN error[1] ELSE "Unknown error"
       IN reply' = <<json(createErrorResponse("api_error",
                       <<"Internal Server Error: ", errorMessage,
                         ". Check browser or devtools for more details.">>), 500)>>
  /\ UNCHANGED <<tr, inp, normVars, toolVars, modelVars, coreOutput, response>>

\* the non-streaming reply: validation of the assembled response
Reply ==
  /\ reply = <<>>
  /\ response # <<>>
  /\ reply' = <<ValidatedReply(response[1])>>
  /\ UNCHANGED <<tr, inp, normVars, toolVars, modelVars, coreOutput, response>>

(* ------------------------------ tool schema adapter -------------------- *)
\* An entry of the tools array: null, or an object whose fields may be
\* missing (optional values).  A function-style tool has input_schema, a
\* backend-native tool has a type tag instead.

NullEntry ==
  [isNull |-> TRUE, name |-> <<>>, description |-> <<>>,
   input_schema |-> <<>>, type |-> <<>>]

\* input_schema: the declared type and the optional properties / required
InputSchema(type, properties, required) ==
  [type |-> type, properties |-> properties, required |-> required]

FunctionTool(name, description, schema) ==
  [NullEntry EXCEPT !.isNull = FALSE, !.name = name,
                    !.description = description, !.input_schema = <<schema>>]

SystemTool(name, type) ==
  [NullEntry EXCEPT !.isNull = FALSE, !.name = name, !.type = type]

SERVER_TOOLS == {"web_search"}

\* the capability tags TYPE_TO_TOOL has a factory for
TYPE_TO_TOOL ==
  {"web_search_20250305", "bash_20241022", "bash_20250124",
   "computer_20241022", "computer_20250124", "text_editor_20241022",
   "text_editor_20250429", "text_editor_20250124"}

\* a converted tool: tool({description, inputSchema}) or the backend's
\* own tool made by the factory of the tag
ConvertedFunction(description, schema) ==
  [kind |-> "function", description |-> description,
   inputSchema |-> schema, type |-> "none"]

ConvertedNative(type) ==
  [kind |-> "provider", description |-> "", inputSchema |-> <<>>,
   type |-> type]

\* record[key] = value on a Record<string, Tool>
setKey(record, key, value) ==
  [k \in (DOMAIN record) \cup {key} |-> IF k = key THEN value ELSE record[k]]

\* the property key t.name: a missing name is the key "undefined"
keyOf(t) == IF t.name = <<>> THEN "undefined" ELSE t.name[1]

\* the body of tools.forEach for one entry t; acc.threw is set when the
\* callback throws a TypeError ("input_schema" in null, or a call of the
\* undefined TYPE_TO_TOOL[t.type])
convertOne(acc, t) ==
  IF t.isNull THEN [acc EXCEPT !.threw = TRUE]
  ELSE IF t.input_schema # <<>>
  THEN [acc EXCEPT !.client =
          setKey(@, keyOf(t),
                 ConvertedFunction(orElse(t.description, <<"">>)[1],
                                   t.input_schema[1]))]
  ELSE IF t.type = <<>> \/ t.type[1] \notin TYPE_TO_TOOL
  THEN [acc EXCEPT !.threw = TRUE]
  ELSE IF t.name # <<>> /\ t.name[1] \in SERVER_TOOLS
  THEN [acc EXCEPT !.server = setKey(@, keyOf(t), ConvertedNative(t.type[1]))]
  ELSE [acc EXCEPT !.client = setKey(@, keyOf(t), ConvertedNative(t.type[1]))]

RECURSIVE forEachTool(_, _)
forEachTool(acc, ts) ==
  IF ts = <<>> \/ acc.threw THEN acc
  ELSE forEachTool(convertOne(acc, Head(ts)), Tail(ts))

\* the merged view { ...client, ...server }
allOf(client, server) ==
  [k \in (DOMAIN client) \cup (DOMAIN server) |->
     IF k \in DOMAIN server THEN server[k] ELSE client[k]]

\* toTools(tools): the three groups, or threw = TRUE when the call throws
toTools(ts) ==
  LET acc == forEachTool([threw |-> FALSE, client |-> <<>>, server |-> <<>>], ts)
  IN  IF acc.threw
      THEN [threw |-> TRUE, client |-> <<>>, server |-> <<>>, all |-> <<>>]
      ELSE [threw |-> FALSE, client |-> acc.client, server |-> acc.server,
            all |-> allOf(acc.client, acc.server)]

(* ------------------------------ tools arrays --------------------------- *)

\* function-style tools, backend-native tools (the tag mapped or not, the
\* name the usual one of the tag or not), and the entries that are no tool
ToolEntries ==
  {FunctionTool(<<"calc">>, <<"adds">>, InputSchema("object", <<"{a:number}">>, << <<"a">> >>)),
   FunctionTool(<<"plain">>, <<>>, InputSchema("object", <<>>, <<>>)),
   FunctionTool(<<"broken">>, <<"adds">>, InputSchema("None", <<"{a:number}">>, << <<"a">> >>)),
   SystemTool(<<"web_search">>, <<"web_search_20250305">>),
   SystemTool(<<"search">>, <<"web_search_20250305">>),
   SystemTool(<<"bash">>, <<"bash_20250124">>),
   SystemTool(<<"computer">>, <<"computer_20990101">>),
   NullEntry,
   [NullEntry EXCEPT !.isNull = FALSE, !.description = <<"Missing name">>],
   [NullEntry EXCEPT !.isNull = FALSE, !.name = <<"">>,
                     !.description = <<"Empty name">>]}

\* The caller builds the tools array, one entry at a time.
AddTool ==
  /\ toolSet = <<>>
  /\ Len(tools) < MaxTools
  /\ \E t \in ToolEntries : tools' = Append(tools, t)
  /\ UNCHANGED <<tr, inp, normVars, respVars, toolSet, options, modelVars>>

\* One call toTools(tools).
Convert ==
  /\ toolSet = <<>>
  /\ toolSet' = <<toTools(tools)>>
  /\ UNCHANGED <<tr, inp, normVars, respVars, tools, options, modelVars>>

(* ------------------------------ model routing -------------------------- *)
\* A model id is a sequence of words; modelId.includes(keyword) is the
\* occurrence of the keyword among them.  An override is an optional string:
\* <<>> when the binding is not configured, <<"">> when it is configured empty.

MaxIdLen == 3

IdWords == {"claude", "haiku", "sonnet", "opus"}

OverrideValues == {<<>>, <<"">>, <<"openai:gpt">>, <<"google:gemini">>}

Keywords == <<"haiku", "sonnet", "opus">>

NoBindings ==
  [HAIKU_MODEL_ID |-> <<>>, SONNET_MODEL_ID |-> <<>>, OPUS_MODEL_ID |-> <<>>]

overrides(modelOverrides) ==
  << <<"haiku", modelOverrides.HAIKU_MODEL_ID>>,
     <<"sonnet", modelOverrides.SONNET_MODEL_ID>>,
     <<"opus", modelOverrides.OPUS_MODEL_ID>> >>

includes(id, keyword) == \E n \in 1..Len(id) : id[n] = keyword

\* an undefined and an empty override are both falsy
truthy(override) == override # <<>> /\ override[1] # ""

\* faulty variant: the first keyword found in the id decides, configured or not
resolveModelIdFirstKeyword(modelOverrides, id) ==
  LET list == overrides(modelOverrides)
      found == {n \in 1..Len(list) : includes(id, list[n][1])}
  IN IF found = {} THEN <<"anthropic:">> \o id
     ELSE LET n == CHOOSE n \in found : \A m \in found : n <= m
          IN IF truthy(list[n][2]) THEN list[n][2] ELSE <<"anthropic:">> \o id

\* the loop over the three pairs, unrolled; the result is a string, here the
\* sequence of its parts
resolveModelId(modelOverrides, id) ==
  LET list == overrides(modelOverrides)
      taken(n) == includes(id, list[n][1]) /\ truthy(list[n][2])
  IN IF taken(1) THEN list[1][2]
     ELSE IF taken(2) THEN list[2][2]
     ELSE IF taken(3) THEN list[3][2]
     ELSE <<"anthropic:">> \o id

\* the request's model field grows by one word
AddWord ==
  /\ resolved = <<>>
  /\ Len(modelId) < MaxIdLen
  /\ \E w \in IdWords : modelId' = Append(modelId, w)
  /\ UNCHANGED <<tr, inp, normVars, respVars, toolVars, env, resolved, ANTHROPIC_API_KEY>>

\* one binding of the deployment is configured
SetOverride ==
  /\ resolved = <<>>
  /\ \E k \in DOMAIN env : \E v \in OverrideValues \ {<<>>} :
       /\ env[k] = <<>>
       /\ env' = [env EXCEPT ![k] = v]
  /\ UNCHANGED <<tr, inp, normVars, respVars, toolVars, modelId, resolved, ANTHROPIC_API_KEY>>

ResolveModel ==
  /\ resolved = <<>>
  /\ resolved' = <<resolveModelId(env, modelId)>>
  /\ UNCHANGED <<tr, inp, normVars, respVars, toolVars, modelId, env, ANTHROPIC_API_KEY>>

(* ------------------------------ handler dispatch ----------------------- *)
\* POST /v1/messages between the validation of the request and the call of
\* the backend: the model id, the allow-list, the messages, the tools and
\* the options of streamText / generateText.

MaxDeclared == 2

\* the tools a validated request declares: ToolSchema admits a function
\* tool whose input_schema has type "object" and any named entry without
\* input_schema, whatever its tag
DeclaredTools ==
  {FunctionTool(<<"calc">>, <<"adds">>, InputSchema("object", <<"{a:number}">>, << <<"a">> >>)),
   SystemTool(<<"web_search">>, <<"web_search_20250305">>),
   SystemTool(<<"search">>, <<"web_search_20250305">>),
   SystemTool(<<"bash">>, <<"bash_20250124">>),
   SystemTool(<<"computer">>, <<"computer_20990101">>)}

\* the system field of a validated request: missing, a string (empty or
\* not) or a list of blocks
Systems ==
  {<<>>, <<SystemString(<<>>)>>, <<SystemString(<<"s">>)>>,
   <<SystemBlocks(<<[type |-> "text", text |-> <<"p">>]>>)>>}

\* the conversation histories of a validated request: a first question, and
\* a question followed by a tool call and its result
Histories ==
  {<<[role |-> "user", content |-> StringContent("b")]>>,
   <<[role |-> "user", content |-> StringContent("b")],
     [role |-> "assistant", content |-> BlockContent(<<ToolUseBlock("t1", "calc")>>)],
     [role |-> "user", content |-> BlockContent(<<ToolResultBlock("t1", FALSE)>>)]>>,
   <<[role |-> "user", content |-> StringContent("b")],
     [role |-> "assistant",
      content |-> BlockContent(<<TextBlock("a"), ToolUseBlock("t2", "web_search")>>)],
     [role |-> "user", content |-> BlockContent(<<ToolResultBlock("t2", TRUE)>>)]>>}

RequestedModels == {<<"claude", "sonnet">>, <<"claude", "opus">>}

\* the deployments: no family override, or the sonnet family sent elsewhere
Deployments ==
  {NoBindings, [NoBindings EXCEPT !.SONNET_MODEL_ID = <<"openai:gpt">>]}

\* new Set((request.tools ?? []).map((tool) => tool.name))
toolNames(ts) == {ts[n].name[1] : n \in 1..Len(ts)}

\* hasServerTool && Boolean(c.env.ANTHROPIC_API_KEY)
\*   ? `anthropic:${request.model}` : modelId
overrideModelId(ts, key, id, rid) ==
  IF DOMAIN ts.server # {} /\ truthy(key) THEN <<"anthropic:">> \o id ELSE rid

\* if (request.system && typeof request.system === "string")
\*   options.system = request.system
systemOption(sys) ==
  IF sys # <<>> /\ sys[1].kind = "string" /\ sys[1].str # <<>>
    THEN <<sys[1].str>>
    ELSE <<>>

\* the deployment configures the Anthropic credential, empty or not
SetApiKey ==
  /\ pc = "idle"
  /\ ANTHROPIC_API_KEY = <<>>
  /\ \E key \in {"", "sk-ant"} : ANTHROPIC_API_KEY' = <<key>>
  /\ UNCHANGED <<tr, inp, normVars, respVars, toolVars, modelId, env, resolved>>

\* the client declares one more tool in the request
DeclareTool ==
  /\ pc = "idle"
  /\ Len(tools) < MaxDeclared
  /\ \E t \in DeclaredTools : tools' = Append(tools, t)
  /\ UNCHANGED <<tr, inp, normVars, respVars, toolSet, options, modelVars>>

\* The handler receives a valid request and prepares the backend call; an
\* exception of toTools lands in the catch and gives the 500 reply, and the
\* backend is not called.
Dispatch ==
  /\ pc = "idle"
  /\ \E sys \in Systems : \E history \in Histories : \E id \in RequestedModels :
       LET req      == [system |-> sys, messages |-> history]
           rid      == resolveModelId(env, id)
           avail    == <<toolNames(tools)>>
           messages == toModelMessages(req, avail)
           ts       == toTools(tools)
       IN  /\ request' = req
           /\ modelId' = id
           /\ resolved' = <<rid>>
           /\ availableTools' = avail
           /\ modelMessages' = messages
           /\ toolSet' = <<ts>>
           /\ IF ts.threw
                THEN /\ options' = <<>>
                     /\ reply' = <<json(createErrorResponse("api_error",
                                     <<"Internal Server Error: ",
                                       "TYPE_TO_TOOL[t.type] is not a function",
                                       ". Check browser or devtools for more details.">>), 500)>>
                ELSE /\ options' =
                          <<[model    |-> overrideModelId(ts, ANTHROPIC_API_KEY, id, rid),
                             messages |-> messages,
                             system   |-> systemOption(sys),
                             tools    |-> ts.all]>>
                     /\ reply' = reply
  /\ pc' = "done"
  /\ UNCHANGED <<tr, inp, coreOutput, response, tools, env, ANTHROPIC_API_KEY>>

(* ------------------------------ properties ----------------------------- *)

Out(i) == tr[i].out

FramesOf(o, ty) == {k \in 1..Len(o) : o[k].type = ty}

\* the indices of the blocks opened and not yet closed after k frames of o
OpenAfter(o, k) ==
  {o[j].index : j \in {j \in 1..k :
      /\ o[j].type = "content_block_start"
      /\ \A m \in (j + 1)..k :
           ~(o[m].type = "content_block_stop" /\ o[m].index = o[j].index)}}

HasPart(i, ty) == \E k \in 1..Len(inp[i]) : inp[i][k].type = ty

\* n text-deltas, then tool-call t1, then finish(tool-calls)
IsTextsCallFinish(seq) ==
  /\ Len(seq) >= 2
  /\ seq[Len(seq)].type = "finish"
  /\ seq[Len(seq)].finishReason = "tool-calls"
  /\ seq[Len(seq) - 1].type = "tool-call"
  /\ seq[Len(seq) - 1].id = "t1"
  /\ \A k \in 1..(Len(seq) - 2) : seq[k].type = "text-delta"

TextsCallFinishFrames(model, seq) ==
  LET n    == Len(seq) - 2
      call == seq[n + 1]
      fin  == seq[n + 2]
  IN  <<MessageStart(model), BlockStart(0, "text", "none", "none", ""), Ping>>
      \o [k \in 1..n |-> BlockDelta(0, "text_delta", seq[k].text)]
      \o <<BlockStop(0),
           BlockStart(1, "tool_use", "t1", call.toolName, call.text),
           BlockStop(1),
           MessageDelta("tool_use", IF fin.usage = <<>> THEN 0 ELSE fin.usage[1]),
           MessageStop, Done>>

\* C1: n >= 0 text-deltas, one atomic tool-call t1 and finish(tool-calls),
\* then the end of the input, produce exactly message-open, block-open(0,
\* text), keep-alive, one delta at index 0 per text-delta, block-close(0),
\* block-open(1, tool_use, t1), block-close(1), message-delta(tool_use),
\* message-close, end-of-stream, and no other frame.
C1_TextsCallFinish ==
  \A i \in Inst :
    (tr[i].status = "closed" /\ IsTextsCallFinish(inp[i]))
      => Out(i) = TextsCallFinishFrames(ModelOf(i), inp[i])

C1_Witness ==
  \E i \in Inst :
    /\ tr[i].status = "closed"
    /\ IsTextsCallFinish(inp[i])
    /\ Len(inp[i]) = 3

\* C2: for every tool id at most one tool_use block-open frame carries it.
C2_OneBlockPerToolId ==
  \A i \in Inst : \A id \in ToolIds :
    Cardinality({k \in FramesOf(Out(i), "content_block_start") :
                   Out(i)[k].kind = "tool_use" /\ Out(i)[k].id = id}) <= 1

Finalizations(i) ==
  <<Cardinality(FramesOf(Out(i), "message_delta")),
    Cardinality(FramesOf(Out(i), "message_stop")),
    Cardinality(FramesOf(Out(i), "done"))>>

Ended(i) == tr[i].status \in {"closed", "errored"}

\* C3 as stated: on every path, an error event included, a stream that has
\* ended has run finalization exactly once.
C3_FinalizedOnEveryPath ==
  \A i \in Inst :
    /\ Ended(i) => Finalizations(i) = <<1, 1, 1>>
    /\ ~Ended(i) => Finalizations(i) = <<0, 0, 0>>

\* C3 amended: finalization never runs twice; it has run exactly once, as
\* the last three frames, when the input ended without an error event
\* (abort and unknown events included), and not at all when an error event
\* ended the stream.
C3_FinalizedOnceUnlessError ==
  \A i \in Inst :
    /\ tr[i].status = "closed" =>
         /\ Finalizations(i) = <<1, 1, 1>>
         /\ ~HasPart(i, "error")
         /\ LET n == Len(Out(i))
            IN  /\ Out(i)[n - 2].type = "message_delta"
                /\ Out(i)[n - 1].type = "message_stop"
                /\ Out(i)[n].type = "done"
    /\ tr[i].status = "errored" =>
         HasPart(i, "error") /\ Finalizations(i) = <<0, 0, 0>>
    /\ ~Ended(i) => Finalizations(i) = <<0, 0, 0>>

C3_Witness ==
  \E i \in Inst :
    /\ tr[i].status = "closed"
    /\ HasPart(i, "abort")
    /\ HasPart(i, "raw")

\* C4: every content-block-delta and content-block-close frame carries the
\* index of a block that was opened earlier and is not yet closed.
C4_DeltaAndCloseHitOpenBlock ==
  \A i \in Inst : \A k \in 1..Len(Out(i)) :
    Out(i)[k].type \in {"content_block_delta", "content_block_stop"}
      => Out(i)[k].index \in OpenAfter(Out(i), k - 1)

\* the frames of o of type ty, in emission order
RECURSIVE Select(_, _)
Select(o, ty) ==
  IF o = <<>> THEN <<>>
  ELSE IF Head(o).type = ty THEN <<Head(o)>> \o Select(Tail(o), ty)
  ELSE Select(Tail(o), ty)

\* C5: the indices of successive block-open frames are 0, 1, 2, ... in
\* emission order, so each is greater than all earlier ones and none is
\* used twice.
C5_BlockOpenIndicesCount ==
  \A i \in Inst :
    LET opens == Select(Out(i), "content_block_start")
    IN  \A j \in 1..Len(opens) : opens[j].index = j - 1

C5_Witness ==
  \E i \in Inst :
    LET opens == Select(Out(i), "content_block_start")
    IN  /\ Len(opens) = 4
        /\ \E j \in 2..4 : opens[j].kind = "text"
        /\ \E j \in 2..4 : opens[j].kind = "tool_use"
        /\ \E j \in 2..4 : opens[j].kind = "web_search_tool_result"

\* C6: at every point of the output at most one content block is open.
C6_AtMostOneOpenBlock ==
  \A i \in Inst : \A k \in 0..Len(Out(i)) :
    Cardinality(OpenAfter(Out(i), k)) <= 1

RECURSIVE Feed(_, _)
Feed(s, parts) ==
  IF parts = <<>> THEN s ELSE Feed(transform(s, Head(parts)), Tail(parts))

\* what a translator for model emits when it runs alone on parts and has
\* reached the given status
Alone(model, parts, status) ==
  LET fresh == toAnthropicStream(model)
  IN  CASE status = "new"     -> fresh
        [] status = "closed"  -> flush(Feed(start(fresh), parts))
        [] OTHER              -> Feed(start(fresh), parts)

\* C7: under every interleaving of two translators, each one's frames and
\* state are those of a translator running alone on its own parts.
C7_InstancesIndependent ==
  \A i \in Inst : tr[i] = Alone(ModelOf(i), inp[i], tr[i].status)

C7_Witness ==
  /\ \A i \in Inst : tr[i].status = "closed" /\ Len(inp[i]) = 1
  /\ \A i \in Inst : tr[i].contentIndex = 1

\* C8: an error event puts the stream into the error state with the wrapped
\* backend error and emits nothing; once errored, no frame is emitted and no
\* part is consumed any more.
C8_ErrorStopsEmission ==
  [][\A i \in Inst :
       /\ (inp'[i] # inp[i] /\ inp'[i][Len(inp'[i])].type = "error")
            => /\ tr'[i].status = "errored"
               /\ tr'[i].error = <<"Stream error: ", inp'[i][Len(inp'[i])].text>>
               /\ tr'[i].out = tr[i].out
       /\ tr[i].status = "errored"
            => tr'[i] = tr[i] /\ inp'[i] = inp[i]]_vars

C8_Witness ==
  \E i \in Inst :
    /\ tr[i].status = "errored"
    /\ Len(inp[i]) >= 2
    /\ \E k \in 1..Len(Out(i)) : Out(i)[k].type = "content_block_delta"


AllStrings(req) ==
  \A k \in 1..Len(req.messages) : req.messages[k].content.kind = "string"

\* C9: when every message of the request has string content (and there is
\* no system field), the normaliser returns one generic message per input
\* message, in the same order and with the same role, each holding the
\* single text part equal to that string.
C9_StringMessagesOneToOne ==
  (pc = "done" /\ request.system = <<>> /\ AllStrings(request)) =>
    /\ Len(modelMessages) = Len(request.messages)
    /\ \A k \in 1..Len(request.messages) :
         /\ modelMessages[k].role = request.messages[k].role
         /\ modelMessages[k].content = <<TextPart(request.messages[k].content.str)>>

C9_Witness ==
  /\ pc = "done"
  /\ AllStrings(request)
  /\ Len(request.messages) = 3
  /\ {request.messages[k].role : k \in 1..3} = Roles
  /\ {request.messages[k].content.str : k \in 1..3} = Strings

\* the blocks of message k of the request that end up as a part of the
\* user/assistant message built from it
KeptBlocks(k) ==
  LET msg == request.messages[k]
      bs  == msg.content.blocks
  IN  {j \in 1..Len(bs) :
         \/ bs[j].type = "text"
         \/ msg.role = "user" /\ bs[j].type = "image"
         \/ /\ msg.role = "assistant"
            /\ bs[j].type = "tool_use"
            /\ (availableTools = <<>> \/ bs[j].name \in availableTools[1])}

\* the input messages that yield a user/assistant message
YieldingMessages(role) ==
  {k \in 1..Len(request.messages) :
     /\ request.messages[k].role = role
     /\ \/ request.messages[k].content.kind = "string"
        \/ KeptBlocks(k) # {}}

OutputMessages(role) ==
  {k \in 1..Len(modelMessages) : modelMessages[k].role = role}

\* C10: every user or assistant message the normaliser emits has a
\* non-empty part list, and an input message yields a user/assistant
\* message only if some block of it is kept: a message with an empty block
\* list, or whose blocks are all filtered or turned into tool messages,
\* yields none.
C10_NoEmptyTurns ==
  pc = "done" =>
    /\ \A k \in 1..Len(modelMessages) :
         modelMessages[k].role \in Roles => Len(modelMessages[k].content) > 0
    /\ \A r \in Roles :
         Cardinality(OutputMessages(r)) = Cardinality(YieldingMessages(r))

C10_Witness ==
  /\ pc = "done"
  /\ \E k \in 1..Len(request.messages) :
       request.messages[k].content = BlockContent(<<>>)
  /\ \E k \in 1..Len(request.messages) :
       /\ request.messages[k].role = "assistant"
       /\ request.messages[k].content.kind = "blocks"
       /\ request.messages[k].content.blocks # <<>>
       /\ KeptBlocks(k) = {}
  /\ \E k \in 1..Len(request.messages) :
       /\ request.messages[k].role = "user"
       /\ request.messages[k].content.kind = "blocks"
       /\ request.messages[k].content.blocks # <<>>
       /\ KeptBlocks(k) = {}
  /\ OutputMessages("tool") # {}
  /\ OutputMessages("user") = {}
  /\ OutputMessages("assistant") = {}


\* the last assistant message before message k of the request, 0 if none
LastAssistant(k) ==
  LET js == {j \in 1..(k - 1) : request.messages[j].role = "assistant"}
  IN  IF js = {} THEN 0 ELSE CHOOSE j \in js : \A h \in js : h <= j

\* the tool_use blocks of message j of the request (none for j = 0 and for
\* string content)
ToolUsesOf(j) ==
  IF j = 0 \/ request.messages[j].content.kind = "string" THEN {}
  ELSE {request.messages[j].content.blocks[h] :
          h \in {h \in 1..Len(request.messages[j].content.blocks) :
                   request.messages[j].content.blocks[h].type = "tool_use"}}

\* the tool_result blocks <<k, h>> of the user messages of the request
ToolResults ==
  {kh \in (1..Len(request.messages)) \X (1..MaxBlocks) :
     /\ request.messages[kh[1]].role = "user"
     /\ request.messages[kh[1]].content.kind = "blocks"
     /\ kh[2] <= Len(request.messages[kh[1]].content.blocks)
     /\ request.messages[kh[1]].content.blocks[kh[2]].type = "tool_result"}

ResultBlock(kh) == request.messages[kh[1]].content.blocks[kh[2]]

\* the tool_result blocks whose id no tool_use block of the last assistant
\* message carries
UnmatchedResults ==
  {kh \in ToolResults :
     \A u \in ToolUsesOf(LastAssistant(kh[1])) : u.id # ResultBlock(kh).id}

SentinelMessages ==
  {j \in 1..Len(modelMessages) :
     /\ modelMessages[j].role = "tool"
     /\ modelMessages[j].content[1].type = "tool-result"
     /\ modelMessages[j].content[1].toolName = "unknown_tool"}

\* C11: a tool_result block whose tool_use_id is not in the current tool
\* context still produces a tool message carrying the sentinel tool name,
\* with or without an allow-list: the normaliser's output holds one
\* sentinel-named tool message for each such block.
C11_UnmatchedResultKept ==
  pc = "done" =>
    Cardinality(SentinelMessages) = Cardinality(UnmatchedResults)

\* the length of the normaliser's output after each message of msgs, the
\* loop of toModelMessages being run one message at a time from state st
RECURSIVE OutputLengths(_, _, _)
OutputLengths(st, msgs, avail) ==
  IF msgs = <<>> THEN <<>>
  ELSE LET st1 == messageLoop(st, <<Head(msgs)>>, avail)
       IN  <<Len(st1.modelMessages)>> \o OutputLengths(st1, Tail(msgs), avail)

\* Segments[k]: the part of modelMessages that message k of the request added
Segments ==
  LET before == toModelMessages([request EXCEPT !.messages = <<>>],
                                availableTools)
      lens   == <<Len(before)>> \o
                OutputLengths(LoopState(before, <<>>), request.messages,
                              availableTools)
  IN  [k \in 1..Len(request.messages) |->
         SubSeq(modelMessages, lens[k] + 1, lens[k + 1])]

UserMessages ==
  {k \in 1..Len(request.messages) : request.messages[k].role = "user"}

\* the name of the tool_use block with this id in the last assistant message
\* before message k (of the last such block, should the message repeat the
\* id), the sentinel if there is no such block
Resolve(k, id) ==
  LET la     == LastAssistant(k)
      blocks == IF la = 0 \/ request.messages[la].content.kind = "string"
                THEN <<>> ELSE request.messages[la].content.blocks
      us     == {h \in 1..Len(blocks) :
                   blocks[h].type = "tool_use" /\ blocks[h].id = id}
  IN  IF us = {} THEN "unknown_tool"
      ELSE blocks[CHOOSE h \in us : \A g \in us : g <= h].name

\* C12: the tool name attached to a tool_result is the name of the tool_use
\* block with that id in the most recent assistant message before it, and
\* only that message: an id found only in an earlier assistant message gets
\* the sentinel name, the tool context being replaced at every assistant
\* message.
C12_NameFromLastAssistantOnly ==
  pc = "done" =>
    LET segs == Segments
    IN  \A k \in UserMessages :
          \A j \in 1..Len(segs[k]) :
            segs[k][j].role = "tool" =>
              segs[k][j].content[1].toolName =
                Resolve(k, segs[k][j].content[1].toolCallId)

\* an id used two assistant messages ago and not in the last one
C12_Witness ==
  /\ pc = "done"
  /\ \E k \in UserMessages :
       \E j \in 1..Len(Segments[k]) :
         LET part == Segments[k][j].content[1]
             la   == LastAssistant(k)
         IN  /\ Segments[k][j].role = "tool"
             /\ part.toolName = "unknown_tool"
             /\ la > 0
             /\ \E h \in 1..(la - 1) :
                  /\ request.messages[h].role = "assistant"
                  /\ \E u \in ToolUsesOf(h) : u.id = part.toolCallId

\* the tool_result blocks of user message k that the allow-list lets through
RetainedResults(k) ==
  IF request.messages[k].role # "user" \/ request.messages[k].content.kind # "blocks"
    THEN {}
    ELSE LET blocks == request.messages[k].content.blocks
         IN  {h \in 1..Len(blocks) :
                /\ blocks[h].type = "tool_result"
                /\ \/ availableTools = <<>>
                   \/ Resolve(k, blocks[h].id) \in availableTools[1]}

\* C13: a user message yields one separate tool message per retained
\* tool_result block, in block order, all before the user message built
\* from the same input message; is_error true gives the error output kind,
\* anything else the text output kind.
C13_ToolMessagesFirstInOrder ==
  pc = "done" =>
    LET segs == Segments
    IN  \A k \in UserMessages :
          LET seg    == segs[k]
              kept   == RetainedResults(k)
              toolAt == {j \in 1..Len(seg) : seg[j].role = "tool"}
          IN  /\ toolAt = 1..Cardinality(kept)
              /\ \A j \in (1..Len(seg)) \ toolAt : seg[j].role = "user"
              /\ Len(seg) <= Cardinality(kept) + 1
              /\ \A h \in kept :
                   LET j     == Cardinality({g \in kept : g <= h})
                       block == ResultBlock(<<k, h>>)
                   IN  /\ Len(seg[j].content) = 1
                       /\ seg[j].content[1].type = "tool-result"
                       /\ seg[j].content[1].toolCallId = block.id
                       /\ seg[j].content[1].outputType =
                            (IF block.is_error THEN "error-text" ELSE "text")

\* a user message with a plain and a failed tool_result and a text block
C13_Witness ==
  /\ pc = "done"
  /\ \E k \in UserMessages :
       LET seg == Segments[k]
       IN  /\ Len(seg) = 3
           /\ seg[1].role = "tool" /\ seg[1].content[1].outputType = "text"
           /\ seg[2].role = "tool" /\ seg[2].content[1].outputType = "error-text"
           /\ seg[1].content[1].toolCallId # seg[2].content[1].toolCallId
           /\ seg[3].role = "user"
           /\ request.messages[k].content.blocks[3].type = "tool_result"

\* the tool calls of the backend result, none when the list is missing
CallsOf(out) == IF out.toolCalls = <<>> THEN <<>> ELSE out.toolCalls[1]

HasText(out) == out.text # <<>> /\ out.text[1] # ""

\* C14: the content list of the assembled response holds a text block iff
\* the result text is non-empty, followed by exactly one tool_use block per
\* tool call in call order (so no text block follows a tool_use block), and
\* a call id present in the result is the id of its block.
C14_TextThenToolUses ==
  response # <<>> =>
    LET content == response[1].content
        calls   == CallsOf(coreOutput)
        t       == IF HasText(coreOutput) THEN 1 ELSE 0
    IN  /\ Len(content) = t + Len(calls)
        /\ t = 1 => content[1] = ResponseTextBlock(coreOutput.text[1])
        /\ \A k \in 1..Len(calls) :
             /\ content[t + k].type = "tool_use"
             /\ calls[k].toolCallId # <<>> =>
                  content[t + k].id = calls[k].toolCallId[1]
             /\ (calls[k].toolCallId = <<>> /\ calls[k].id # <<>>) =>
                  content[t + k].id = calls[k].id[1]
             /\ content[t + k].name =
                  (IF calls[k].toolName # <<>> THEN calls[k].toolName
                   ELSE calls[k].name)

\* a text and two calls with different ids
C14_Witness ==
  /\ response # <<>>
  /\ HasText(coreOutput)
  /\ Len(response[1].content) = 3
  /\ response[1].content[2].id = "t2"
  /\ response[1].content[3].id = "t1"

\* C15: the stop reason of the assembled response is a function of the
\* finish reason alone: stop gives end_turn, length max_tokens, tool-calls
\* tool_use, content-filter end_turn, stop-sequence stop_sequence, and
\* every other value, a missing one included, end_turn.
C15_StopReasonTable ==
  response # <<>> =>
    LET reason == coreOutput.finishReason
    IN  response[1].stop_reason =
          (IF reason = <<"length">> THEN "max_tokens"
           ELSE IF reason = <<"tool-calls">> THEN "tool_use"
           ELSE IF reason = <<"stop-sequence">> THEN "stop_sequence"
           ELSE "end_turn")

\* a finish reason outside the table, with tool calls in the result
C15_Witness ==
  /\ response # <<>>
  /\ coreOutput.finishReason = <<"error">>
  /\ Len(CallsOf(coreOutput)) > 0
  /\ response[1].stop_reason = "end_turn"

\* C16: in the assembled usage the input and output token counts are the
\* supplied values, 0 when not supplied, and each cache field is present
\* iff the backend supplied it: a supplied 0 is kept, a missing value is
\* not turned into 0.
C16_UsageFields ==
  response # <<>> =>
    LET usage == response[1].usage
        given == coreOutput.usage
    IN  IF given = <<>>
        THEN /\ usage.input_tokens = 0
             /\ usage.output_tokens = 0
             /\ usage.cache_creation_input_tokens = <<>>
             /\ usage.cache_read_input_tokens = <<>>
        ELSE /\ usage.input_tokens =
                  (IF given[1].inputTokens = <<>> THEN 0
                   ELSE given[1].inputTokens[1])
             /\ usage.output_tokens =
                  (IF given[1].outputTokens = <<>> THEN 0
                   ELSE given[1].outputTokens[1])
             /\ usage.cache_creation_input_tokens =
                  given[1].cacheCreationInputTokens
             /\ usage.cache_read_input_tokens =
                  given[1].cacheReadInputTokens

\* one cache field supplied as 0, the other missing
C16_Witness ==
  /\ response # <<>>
  /\ coreOutput.usage # <<>>
  /\ response[1].usage.cache_read_input_tokens = <<0>>
  /\ response[1].usage.cache_creation_input_tokens = <<>>
  /\ response[1].usage.input_tokens = 0

\* C17: every tool_use block of an assembled response has its input set; a
\* tool call with neither input nor args gets the empty object.
C17_InputAlwaysSet ==
  response # <<>> =>
    LET content == response[1].content
        calls   == CallsOf(coreOutput)
        t       == IF HasText(coreOutput) THEN 1 ELSE 0
    IN  /\ \A k \in 1..Len(content) :
             content[k].type = "tool_use" => content[k].input # <<>>
        /\ \A k \in 1..Len(calls) :
             (calls[k].input = <<>> /\ calls[k].args = <<>>) =>
               content[t + k].input = <<"{}">>

\* the entries of the tools array that are function-style / backend-native
\* tools with a usable name
Named(t) == ~t.isNull /\ t.name # <<>> /\ t.name # <<"">>

FunctionStyle(t) == Named(t) /\ t.input_schema # <<>>

Native(t) == Named(t) /\ t.input_schema = <<>> /\ t.type # <<>>

WebSearchFamily == {"web_search_20250305"}

\* C18: every converted tool is in exactly one of the client-executed and
\* backend-executed groups and the merged view is the union of the two; a
\* function-style tool is client-executed, a backend-native tool whose tag
\* is in the web-search family is backend-executed, every other
\* backend-native tool is client-executed.
C18_GroupsByCapabilityTag ==
  (toolSet # <<>> /\ ~toolSet[1].threw) =>
    LET client == toolSet[1].client
        server == toolSet[1].server
        all    == toolSet[1].all
    IN  /\ (DOMAIN client) \cap (DOMAIN server) = {}
        /\ DOMAIN all = (DOMAIN client) \cup (DOMAIN server)
        /\ \A k \in DOMAIN client : all[k] = client[k]
        /\ \A k \in DOMAIN server : all[k] = server[k]
        /\ \A k \in 1..Len(tools) :
             LET t == tools[k]
             IN  /\ FunctionStyle(t) => t.name[1] \in DOMAIN client
                 /\ (Native(t) /\ t.type[1] \in WebSearchFamily) =>
                      t.name[1] \in DOMAIN server
                 /\ (Native(t) /\ t.type[1] \in TYPE_TO_TOOL \ WebSearchFamily) =>
                      t.name[1] \in DOMAIN client

\* the entries the adapter is to leave out: null, no name or an empty one,
\* a backend-native entry whose tag has no mapping
BadEntry(t) ==
  \/ ~Named(t)
  \/ t.input_schema = <<>> /\ (t.type = <<>> \/ t.type[1] \notin TYPE_TO_TOOL)

\* C19: the adapter never fails on bad entries: they are left out of the
\* result and every other entry of the list is converted.
C19_BadEntriesLeftOut ==
  toolSet # <<>> =>
    /\ ~toolSet[1].threw
    /\ DOMAIN toolSet[1].all =
         {tools[k].name[1] : k \in {k \in 1..Len(tools) : ~BadEntry(tools[k])}}

\* C20: the adapted input schema of every function-style tool has type
\* object, a properties map and a required list: another declared type is
\* coerced to object, missing properties / required become the empty map /
\* the empty list, supplied ones are kept.
C20_SchemaNormalized ==
  (toolSet # <<>> /\ ~toolSet[1].threw) =>
    \A k \in 1..Len(tools) :
      FunctionStyle(tools[k]) =>
        LET given   == tools[k].input_schema[1]
            adapted == toolSet[1].client[tools[k].name[1]].inputSchema
        IN  /\ adapted.type = "object"
            /\ adapted.properties =
                 (IF given.properties = <<>> THEN <<"{}">> ELSE given.properties)
            /\ adapted.required =
                 (IF given.required = <<>> THEN << <<>> >> ELSE given.required)

\* C21: the resolved id is the override of the first keyword, in the order
\* haiku, sonnet, opus, that occurs in the requested id and whose override is
\* configured non-empty; when there is none it is the requested id under the
\* anthropic namespace.  Nothing but the id and the three overrides decides.
OverrideOf(n) ==
  CASE n = 1 -> env.HAIKU_MODEL_ID
    [] n = 2 -> env.SONNET_MODEL_ID
    [] n = 3 -> env.OPUS_MODEL_ID

Usable ==
  {n \in 1..3 :
     /\ \E m \in 1..Len(modelId) : modelId[m] = Keywords[n]
     /\ OverrideOf(n) \notin {<<>>, <<"">>}}

C21_FirstConfiguredKeyword ==
  resolved # <<>> =>
    IF Usable = {}
      THEN resolved[1] = <<"anthropic:">> \o modelId
      ELSE LET first == CHOOSE n \in Usable : \A m \in Usable : n <= m
           IN resolved[1] = OverrideOf(first)

\* an id naming haiku and sonnet, haiku configured empty, sonnet configured
C21_Witness ==
  /\ resolved # <<>>
  /\ \E a, b \in 1..Len(modelId) : modelId[a] = "sonnet" /\ modelId[b] = "haiku"
  /\ env.HAIKU_MODEL_ID = <<"">>
  /\ env.SONNET_MODEL_ID = <<"google:gemini">>
  /\ env.OPUS_MODEL_ID = <<"openai:gpt">>
  /\ resolved[1] = <<"google:gemini">>

\* C22: on the non-streaming path an assembled response that fails the
\* outbound schema is never replied as a success: the reply is then the
\* structured error of category api_error with status 500, and a reply with
\* status 200 carries a response that passes the schema.
Assembled == response # <<>> /\ reply # <<>>

C22_InvalidResponseNeverSuccess ==
  Assembled =>
    IF AnthropicResponseSchema(response[1])
      THEN reply[1] = [status |-> 200, body |-> response[1]]
      ELSE /\ reply[1].status = 500
           /\ reply[1].body.type = "error"
           /\ reply[1].body.error.type = "api_error"

\* a tool call without input or args leaves the block's input undefined:
\* the response fails the schema and the reply is the 500
C22_Witness ==
  /\ Assembled
  /\ \E k \in 1..Len(response[1].content) :
       /\ response[1].content[k].type = "tool_use"
       /\ response[1].content[k].input = <<>>
  /\ reply[1].status = 500
  /\ reply[1].body.error.type = "api_error"

\* C23: every fatal condition reaches the client as a structured error with
\* a category tag and a message: a reply that is not a success carries one,
\* and a stream that a backend error event has ended carries an error frame.
StructuredError(body) ==
  /\ body.type = "error"
  /\ body.error.type \in {"invalid_request_error", "api_error"}
  /\ body.error.message # <<>>

C23_RepliesStructured ==
  (reply # <<>> /\ reply[1].status # 200) => StructuredError(reply[1].body)

C23_FatalIsStructuredError ==
  /\ C23_RepliesStructured
  /\ \A i \in Inst :
       tr[i].status = "errored" =>
         \E k \in 1..Len(Out(i)) : Out(i)[k].type = "error"

\* the blocks of message k of the request, string content being one text block
BlocksOf(k) ==
  IF request.messages[k].content.kind = "string"
    THEN <<TextBlock(request.messages[k].content.str)>>
    ELSE request.messages[k].content.blocks

\* the blocks of message k the normaliser can use: text and image blocks
\* and retained tool_result blocks under the user role, text blocks and
\* tool_use blocks of allowed tools under the assistant role
UsableBlocks(k) ==
  LET blocks == BlocksOf(k)
  IN  IF request.messages[k].role = "user"
        THEN {h \in 1..Len(blocks) : blocks[h].type \in {"text", "image"}}
               \cup RetainedResults(k)
        ELSE {h \in 1..Len(blocks) :
                \/ blocks[h].type = "text"
                \/ /\ blocks[h].type = "tool_use"
                   /\ \/ availableTools = <<>>
                      \/ blocks[h].name \in availableTools[1]}

RECURSIVE PartCount(_)
PartCount(msgs) ==
  IF msgs = <<>> THEN 0 ELSE Len(Head(msgs).content) + PartCount(Tail(msgs))

\* C24: the normaliser is total on validated requests: for every request,
\* whatever the mix of blocks, roles, allow-list and tool ids, the result
\* is a list of non-empty messages of the four roles, and each message of
\* the request contributes exactly one part per block the normaliser can
\* use, the other blocks being skipped.
C24_NormalizerTotal ==
  pc = "done" =>
    LET segs == Segments
    IN  /\ \A j \in 1..Len(modelMessages) :
             /\ modelMessages[j].role \in {"system", "user", "assistant", "tool"}
             /\ modelMessages[j].role # "system" => Len(modelMessages[j].content) >= 1
        /\ \A k \in 1..Len(request.messages) :
             PartCount(segs[k]) = Cardinality(UsableBlocks(k))

\* a user message holding a tool_use block, which is skipped, a tool_result
\* with an unresolved id, which is kept, and a text block
C24_Witness ==
  /\ pc = "done"
  /\ availableTools = <<>>
  /\ \E k \in UserMessages :
       /\ request.messages[k].content.kind = "blocks"
       /\ Len(request.messages[k].content.blocks) = 3
       /\ request.messages[k].content.blocks[1].type = "tool_use"
       /\ <<k, 2>> \in UnmatchedResults
       /\ PartCount(Segments[k]) = 2

\* the texts of the text-typed blocks of a system list, joined by newlines
RECURSIVE TextOfTextBlocks(_)
TextOfTextBlocks(blocks) ==
  IF blocks = <<>> THEN <<>>
  ELSE IF Head(blocks).type # "text" THEN TextOfTextBlocks(Tail(blocks))
  ELSE IF \A k \in 1..Len(Tail(blocks)) : Tail(blocks)[k].type # "text"
    THEN Head(blocks).text
  ELSE Head(blocks).text \o <<"\n">> \o TextOfTextBlocks(Tail(blocks))

SystemAt == {j \in 1..Len(modelMessages) : modelMessages[j].role = "system"}

\* C25: a request with a system field is normalised to a list that starts
\* with its only system message, whose content is the string verbatim or,
\* for a block list, the texts of the text-typed blocks joined by single
\* newlines (the empty string without text block); a request without
\* system field gives no system message.
C25_SystemMessageFirst ==
  pc = "done" =>
    IF request.system = <<>> THEN SystemAt = {}
    ELSE /\ SystemAt = {1}
         /\ modelMessages[1].text =
              (IF request.system[1].kind = "string"
               THEN request.system[1].str
               ELSE TextOfTextBlocks(request.system[1].blocks))

\* the block-open frames of kind text among the first k frames of o
TextOpensBefore(o, k) ==
  {j \in 1..k : o[j].type = "content_block_start" /\ o[j].kind = "text"}

\* C26: every text delta frame carries the index of the text block opened
\* last before it: 0 for the initial text block, and the fresh index k once
\* a text block has been re-opened at k after a tool or citation block.
C26_TextDeltaHitsLastTextBlock ==
  \A i \in Inst : \A k \in 1..Len(Out(i)) :
    (Out(i)[k].type = "content_block_delta" /\ Out(i)[k].kind = "text_delta") =>
      LET opens == TextOpensBefore(Out(i), k)
      IN  /\ opens # {}
          /\ Out(i)[k].index =
               Out(i)[CHOOSE j \in opens : \A h \in opens : h <= j].index

\* the block-open frames of streamed tool blocks with this id that no
\* block-close frame has matched yet
StreamedOpen(i, id) ==
  {j \in 1..Len(Out(i)) :
     /\ Out(i)[j].type = "content_block_start"
     /\ Out(i)[j].kind = "tool_use"
     /\ Out(i)[j].id = id
     /\ Out(i)[j].index \in OpenAfter(Out(i), Len(Out(i)))
     /\ \A m \in (j + 1)..Len(Out(i)) :
          ~(Out(i)[m].type = "content_block_stop" /\ Out(i)[m].index = Out(i)[j].index)}

\* the id of the last tool-input-start consumed, "none" before the first
ActiveToolId(i) ==
  LET starts == {k \in 1..Len(inp[i]) : inp[i][k].type = "tool-input-start"}
  IN  IF starts = {} THEN "none"
      ELSE inp[i][CHOOSE k \in starts : \A h \in starts : h <= k].id

\* C29: a tool-input-delta event emits one partial-input delta frame when a
\* streamed tool block is open and the event's id is the active tool id,
\* the frame carrying the index at which that block was opened; in every
\* other case it emits nothing.
C29_ToolInputDeltaForwarded ==
  [][\A i \in Inst :
       (/\ Len(inp'[i]) = Len(inp[i]) + 1
        /\ inp'[i][Len(inp'[i])].type = "tool-input-delta") =>
         LET part  == inp'[i][Len(inp'[i])]
             opens == IF part.id = ActiveToolId(i)
                      THEN StreamedOpen(i, part.id) ELSE {}
             new   == SubSeq(tr'[i].out, Len(tr[i].out) + 1, Len(tr'[i].out))
         IN  IF opens = {} THEN new = <<>>
             ELSE new = <<BlockDelta(
                            Out(i)[CHOOSE j \in opens : \A h \in opens : h <= j].index,
                            "input_json_delta", part.text)>>]_vars

\* the position of the message-delta frame of a finalized stream
DeltaAt(o) == CHOOSE k \in 1..Len(o) : o[k].type = "message_delta"

\* C27: when a stream ends without an error event no block is left open:
\* every block-open frame is matched by exactly one block-close frame with
\* its index, after it and before the message-delta frame.
C27_EveryBlockClosedOnce ==
  \A i \in Inst :
    tr[i].status = "closed" =>
      \A j \in FramesOf(Out(i), "content_block_start") :
        Cardinality({m \in (j + 1)..(DeltaAt(Out(i)) - 1) :
                       /\ Out(i)[m].type = "content_block_stop"
                       /\ Out(i)[m].index = Out(i)[j].index}) = 1

BlockFrameTypes ==
  {"content_block_start", "content_block_delta", "content_block_stop"}

\* C28: every stream that ends without an error event is framed alike: the
\* first three frames are message-open, block-open (index 0, empty text)
\* and keep-alive, emitted before any part is consumed; the last three are
\* message-delta, message-close and the end-of-stream sentinel; only block
\* frames lie between them; nothing is emitted after the sentinel.
C28_Framing ==
  \A i \in Inst :
    /\ inp[i] # <<>> => tr[i].status \notin {"absent", "new"}
    /\ (tr[i].status = "active" /\ inp[i] = <<>>) =>
         Out(i) = <<MessageStart(ModelOf(i)),
                    BlockStart(0, "text", "none", "none", ""), Ping>>
    /\ tr[i].status = "closed" =>
         LET o == Out(i)
             n == Len(o)
         IN  /\ n >= 6
             /\ SubSeq(o, 1, 3) = <<MessageStart(ModelOf(i)),
                                    BlockStart(0, "text", "none", "none", ""),
                                    Ping>>
             /\ o[n - 2].type = "message_delta"
             /\ o[n - 1] = MessageStop
             /\ o[n] = Done
             /\ \A k \in 4..(n - 3) : o[k].type \in BlockFrameTypes
             /\ FramesOf(o, "done") = {n}
             /\ ~CanConsume(i)
             /\ ~ENABLED Flush(i)

\* a finalized stream with a text delta and an atomic tool block in between
C28_Witness ==
  \E i \in Inst :
    /\ tr[i].status = "closed"
    /\ HasPart(i, "text-delta")
    /\ HasPart(i, "tool-call")
    /\ HasPart(i, "finish")
    /\ Len(Out(i)) >= 10

\* the finish and finish-step parts consumed so far that carry a token count
Counted(i) ==
  {k \in 1..Len(inp[i]) :
     /\ inp[i][k].type \in {"finish", "finish-step"}
     /\ inp[i][k].usage # <<>>}

\* C30: the output token count of the message-delta frame is the last
\* token count that a finish or finish-step part carried, 0 when none did;
\* a part without token count leaves an earlier count as it is.
C30_LastTokenCountWins ==
  \A i \in Inst :
    tr[i].status = "closed" =>
      Out(i)[DeltaAt(Out(i))].tokens =
        (IF Counted(i) = {} THEN 0
         ELSE inp[i][CHOOSE k \in Counted(i) : \A h \in Counted(i) : h <= k].usage[1])

\* the finish reason captured from the stream: that of the last finish part
CapturedReason(i) ==
  LET fs == {k \in 1..Len(inp[i]) : inp[i][k].type = "finish"}
  IN  IF fs = {} THEN <<>>
      ELSE <<inp[i][CHOOSE k \in fs : \A h \in fs : h <= k].finishReason>>

\* C31: the stop reason of the message-delta frame is the one the response
\* assembler gives for the captured finish reason (end_turn when no finish
\* part arrived), and it is one of end_turn, max_tokens, stop_sequence,
\* tool_use.
C31_StreamStopReasonAsAssembler ==
  \A i \in Inst :
    tr[i].status = "closed" =>
      /\ Out(i)[DeltaAt(Out(i))].stop = mapFinishReason(CapturedReason(i))
      /\ Out(i)[DeltaAt(Out(i))].stop \in StopReasons

\* the kinds of part the translator has no use for; "raw" is a kind its
\* switch does not know
NoOpTypes == {"raw", "abort", "start", "tool-result"}

HasEffect(part) == part.type \notin NoOpTypes

\* C32: parts of an unrecognized kind and abort, start and tool-result
\* parts emit no frame and leave the translator's state as it is: frames
\* and state are those for the consumed sequence with these parts taken
\* out, and the stream is not aborted by them.
C32_NoOpParts ==
  \A i \in Inst :
    /\ tr[i].status # "absent" =>
         tr[i] = Alone(ModelOf(i), SelectSeq(inp[i], HasEffect), tr[i].status)
    /\ tr[i].status = "errored" => HasPart(i, "error")

\* a finalized stream with a no-op part between two parts that emit frames
C32_Witness ==
  \E i \in Inst :
    /\ tr[i].status = "closed"
    /\ Len(inp[i]) = 3
    /\ inp[i][1].type = "text-delta"
    /\ inp[i][2].type \in {"abort", "start"}
    /\ inp[i][3].type = "tool-call"

\* the frames translator i emits in this step
NewFrames(i) == SubSeq(tr'[i].out, Len(tr[i].out) + 1, Len(tr'[i].out))

\* the text blocks opened and not closed so far, by position of their
\* block-open frame
OpenTextBlocks(i) ==
  {j \in TextOpensBefore(Out(i), Len(Out(i))) :
     \A m \in (j + 1)..Len(Out(i)) :
       ~(Out(i)[m].type = "content_block_stop" /\ Out(i)[m].index = Out(i)[j].index)}

\* the next index no block has used
FreshIndex(i) ==
  LET used == {Out(i)[j].index : j \in FramesOf(Out(i), "content_block_start")}
  IN  1 + CHOOSE n \in used : \A m \in used : m <= n

\* the id of the last web_search tool call consumed, or the synthesized id
WebSearchId(i) ==
  LET ws == {k \in 1..Len(inp[i]) :
               inp[i][k].type = "tool-call" /\ inp[i][k].toolName = "web_search"}
  IN  IF ws = {} THEN "web_search_uuid"
      ELSE inp[i][CHOOSE k \in ws : \A h \in ws : h <= k].id

\* C33: a source part of url kind closes the open text block if there is
\* one, then opens a web-search-result block at the next fresh index and
\* closes it at once, its tool_use_id being the id of the last web_search
\* tool call seen, or a synthesized id; a source part of another kind emits
\* nothing and changes no state.
C33_SourceBlock ==
  [][\A i \in Inst :
       (/\ Len(inp'[i]) = Len(inp[i]) + 1
        /\ inp'[i][Len(inp'[i])].type = "source") =>
         LET part   == inp'[i][Len(inp'[i])]
             closes == IF OpenTextBlocks(i) = {} THEN <<>>
                       ELSE <<BlockStop(Out(i)[CHOOSE j \in OpenTextBlocks(i) :
                                \A h \in OpenTextBlocks(i) : h <= j].index)>>
         IN  IF part.sourceType = "url"
             THEN /\ Len(NewFrames(i)) = Len(closes) + 2
                  /\ SubSeq(NewFrames(i), 1, Len(closes)) = closes
                  /\ LET open == NewFrames(i)[Len(closes) + 1]
                     IN  /\ open.type = "content_block_start"
                         /\ open.kind = "web_search_tool_result"
                         /\ open.index = FreshIndex(i)
                         /\ open.id = WebSearchId(i)
                  /\ NewFrames(i)[Len(closes) + 2] = BlockStop(FreshIndex(i))
             ELSE tr'[i] = tr[i]]_vars

\* the texts of the records of seq whose type is in types, in order
TextsOf(seq, types) ==
  LET carries(f) == f.type \in types /\ f.kind \in {"none", "text_delta"}
      sel == SelectSeq(seq, carries)
  IN  [k \in 1..Len(sel) |-> sel[k].text]

DeltaParts == {"text-delta", "reasoning-delta"}

\* NoPart has no field kind: the parts are read through this view
AsTexts(parts) ==
  [k \in 1..Len(parts) |->
     [type |-> parts[k].type, kind |-> "none", text |-> parts[k].text]]

\* C34: the translator neither reorders nor buffers: every step only
\* appends to the frames already emitted, a text-delta or reasoning-delta
\* part appends exactly one text delta frame, which carries its text, any
\* other part appends none, and so the texts of the text delta frames are
\* the texts of the consumed deltas in arrival order.
C34_NoReorderNoBuffer ==
  [][\A i \in Inst :
       /\ Len(tr'[i].out) >= Len(tr[i].out)
       /\ SubSeq(tr'[i].out, 1, Len(tr[i].out)) = tr[i].out
       /\ Len(inp'[i]) = Len(inp[i]) + 1 =>
            TextsOf(NewFrames(i), {"content_block_delta"}) =
              TextsOf(AsTexts(<<inp'[i][Len(inp'[i])]>>), DeltaParts)
       /\ TextsOf(tr'[i].out, {"content_block_delta"}) =
            TextsOf(AsTexts(inp'[i]), DeltaParts)]_vars

\* three deltas with different texts, a reasoning delta among them
C34_Witness ==
  \E i \in Inst :
    /\ tr[i].status = "closed"
    /\ Len(inp[i]) = 3
    /\ inp[i][1].type = "text-delta" /\ inp[i][1].text = "a"
    /\ inp[i][2].type = "reasoning-delta"
    /\ inp[i][3].type = "text-delta" /\ inp[i][3].text = "b"
    /\ TextsOf(Out(i), {"content_block_delta"}) = <<"a", inp[i][2].text, "b">>

\* the parts of the given type in the normaliser's output, as <<j, h>>
PartsOfType(ty) ==
  {jh \in (1..Len(modelMessages)) \X (1..MaxBlocks) :
     /\ jh[2] <= Len(modelMessages[jh[1]].content)
     /\ modelMessages[jh[1]].content[jh[2]].type = ty}

\* the blocks of the given type in the messages of the given role, as <<k, h>>
BlocksOfType(role, ty) ==
  {kh \in (1..Len(request.messages)) \X (1..MaxBlocks) :
     /\ request.messages[kh[1]].role = role
     /\ request.messages[kh[1]].content.kind = "blocks"
     /\ kh[2] <= Len(request.messages[kh[1]].content.blocks)
     /\ request.messages[kh[1]].content.blocks[kh[2]].type = ty}

\* C35: with an allow-list no emitted tool-call part and no emitted
\* tool-result part names a tool outside it; without an allow-list no
\* tool_use block of an assistant message and no tool_result block of a
\* user message is dropped.
C35_AllowListFilters ==
  pc = "done" =>
    IF availableTools # <<>>
      THEN \A jh \in PartsOfType("tool-call") \cup PartsOfType("tool-result") :
             modelMessages[jh[1]].content[jh[2]].toolName \in availableTools[1]
      ELSE /\ Cardinality(PartsOfType("tool-call")) =
                Cardinality(BlocksOfType("assistant", "tool_use"))
           /\ Cardinality(PartsOfType("tool-result")) =
                Cardinality(BlocksOfType("user", "tool_result"))

\* an allow-list naming calc only: of a calc and a web_search tool_use the
\* first is emitted, the second is not
C35_Witness ==
  /\ pc = "done"
  /\ availableTools = <<{"calc"}>>
  /\ \E kh \in BlocksOfType("assistant", "tool_use") :
       request.messages[kh[1]].content.blocks[kh[2]].name = "web_search"
  /\ Cardinality(PartsOfType("tool-call")) = 1
  /\ Cardinality(BlocksOfType("assistant", "tool_use")) = 2

\* C36: within every assistant message of the normaliser's output the
\* tool-call ids are pairwise distinct, also when the assistant message of
\* the request repeats an id.
C36_ToolCallIdsDistinct ==
  pc = "done" =>
    \A j \in 1..Len(modelMessages) :
      modelMessages[j].role = "assistant" =>
        \A g, h \in 1..Len(modelMessages[j].content) :
          (/\ g # h
           /\ modelMessages[j].content[g].type = "tool-call"
           /\ modelMessages[j].content[h].type = "tool-call") =>
            modelMessages[j].content[g].toolCallId #
              modelMessages[j].content[h].toolCallId

\* the last assistant message of the output before position j, 0 if none
LastEmittedAssistant(j) ==
  LET as == {g \in 1..(j - 1) : modelMessages[g].role = "assistant"}
  IN  IF as = {} THEN 0 ELSE CHOOSE g \in as : \A h \in as : h <= g

\* C37: with an allow-list, a tool-result part whose id the current tool
\* context holds is emitted only together with its call: the last assistant
\* message emitted before it has a tool-call part with the same id.
C37_NoOrphanResult ==
  (pc = "done" /\ availableTools # <<>>) =>
    \A j \in 1..Len(modelMessages) :
      modelMessages[j].role = "tool" =>
        LET part == modelMessages[j].content[1]
            la   == LastEmittedAssistant(j)
        IN  part.toolName # "unknown_tool" =>
              /\ la > 0
              /\ \E h \in 1..Len(modelMessages[la].content) :
                   /\ modelMessages[la].content[h].type = "tool-call"
                   /\ modelMessages[la].content[h].toolCallId = part.toolCallId

\* the allow-list names calc: of a calc and a web_search call the first is
\* emitted, and the result of the calc call is emitted after it
C37_Witness ==
  /\ pc = "done"
  /\ availableTools = <<{"calc"}>>
  /\ Cardinality(BlocksOfType("assistant", "tool_use")) = 2
  /\ Cardinality(PartsOfType("tool-call")) = 1
  /\ UnmatchedResults = {}
  /\ Cardinality(PartsOfType("tool-result")) = 1

\* the places where the backend call carries the system prompt: the system
\* option, and the system messages of the message list
SystemCarriers(o) ==
  (IF o.system # <<>> THEN 1 ELSE 0)
    + Cardinality({j \in 1..Len(o.messages) : o.messages[j].role = "system"})

\* C38: the handler hands the system prompt to the backend exactly once: a
\* request with a system prompt reaches the backend with one carrier of it,
\* never with both a leading system message and the system option, and a
\* request without one with none.
C38_SystemPromptOnce ==
  options # <<>> =>
    SystemCarriers(options[1]) = (IF hasSystem(request) THEN 1 ELSE 0)

\* C39: for a request that declares no tools the handler filters nothing:
\* the messages handed to the backend are those the normaliser gives without
\* an allow-list, with one tool-call part per tool_use block and one tool
\* message per tool_result block of the history.
C39_NoToolsNoFilter ==
  (options # <<>> /\ tools = <<>>) =>
    /\ options[1].messages = toModelMessages(request, <<>>)
    /\ Cardinality(PartsOfType("tool-call"))
         = Cardinality(BlocksOfType("assistant", "tool_use"))
    /\ Cardinality(PartsOfType("tool-result"))
         = Cardinality(BlocksOfType("user", "tool_result"))

\* the request declares a backend-executed tool: a backend-native entry
\* with a tag of the web-search family
DeclaresServerTool ==
  \E k \in 1..Len(tools) : Native(tools[k]) /\ tools[k].type[1] \in WebSearchFamily

\* C40: the backend invoked is anthropic:<requested id>, whatever the family
\* overrides, exactly when the request declares a backend-executed tool and
\* an Anthropic credential is configured; otherwise it is the result of the
\* Model ID Resolver for the requested id.
C40_BackendChoice ==
  options # <<>> =>
    options[1].model =
      IF DeclaresServerTool /\ truthy(ANTHROPIC_API_KEY)
        THEN <<"anthropic:">> \o modelId
        ELSE resolveModelId(env, modelId)

(* ------------------------------ specifications ------------------------- *)

NoRequest == [system |-> <<>>, messages |-> <<>>]

NormIdle ==
  /\ request = NoRequest
  /\ availableTools = <<>>
  /\ modelMessages = <<>>
  /\ pc = "idle"

RespIdle ==
  /\ coreOutput = NoOutput
  /\ response = <<>>
  /\ reply = <<>>

ToolsIdle ==
  /\ tools = <<>>
  /\ toolSet = <<>>
  /\ options = <<>>

ModelIdle ==
  /\ modelId = <<>>
  /\ env = NoBindings
  /\ resolved = <<>>
  /\ ANTHROPIC_API_KEY = <<>>

\* one request in flight
Init ==
  /\ tr = [i \in Inst |-> IF i = 1 THEN toAnthropicStream(ModelOf(i)) ELSE Absent]
  /\ inp = [i \in Inst |-> <<>>]
  /\ NormIdle
  /\ RespIdle
  /\ ToolsIdle
  /\ ModelIdle

\* two concurrent requests, each with its own translator
InitPair ==
  /\ tr = [i \in Inst |-> toAnthropicStream(ModelOf(i))]
  /\ inp = [i \in Inst |-> <<>>]
  /\ NormIdle
  /\ RespIdle
  /\ ToolsIdle
  /\ ModelIdle

Next ==
  \E i \in Inst :
    \/ Start(i)
    \/ TextStart(i)
    \/ TextDelta(i)
    \/ ReasoningDelta(i)
    \/ ToolInputStart(i)
    \/ ToolInputDelta(i)
    \/ ToolInputEnd(i)
    \/ ToolCall(i)
    \/ Finish(i)
    \/ FinishStep(i)
    \/ Error(i)
    \/ Abort(i)
    \/ Source(i)
    \/ Ignored(i)
    \/ Unknown(i)
    \/ Flush(i)

Spec == Init /\ [][Next]_vars

SpecPair == InitPair /\ [][Next]_vars

\* a request is being composed
InitNorm ==
  /\ tr = [i \in Inst |-> Absent]
  /\ inp = [i \in Inst |-> <<>>]
  /\ request = Request(<<>>)
  /\ availableTools = <<>>
  /\ modelMessages = <<>>
  /\ pc = "build"
  /\ RespIdle
  /\ ToolsIdle
  /\ ModelIdle

NextNorm == SetSystem \/ AddSystemBlock \/ AddMessage \/ AddBlock \/ Normalize

SpecNorm == InitNorm /\ [][NextNorm]_vars

\* one backend result, assembled once
InitResp ==
  /\ tr = [i \in Inst |-> Absent]
  /\ inp = [i \in Inst |-> <<>>]
  /\ NormIdle
  /\ RespIdle
  /\ ToolsIdle
  /\ ModelIdle

NextResp ==
  \/ SetText
  \/ SetToolCalls
  \/ AddToolCall
  \/ SetUsage
  \/ SetFinishReason
  \/ Assemble
  \/ RejectRequest
  \/ CatchThrown
  \/ Reply

SpecResp == InitResp /\ [][NextResp]_vars

\* one tools array, converted once
InitTools ==
  /\ tr = [i \in Inst |-> Absent]
  /\ inp = [i \in Inst |-> <<>>]
  /\ NormIdle
  /\ RespIdle
  /\ ToolsIdle
  /\ ModelIdle

NextTools == AddTool \/ Convert

SpecTools == InitTools /\ [][NextTools]_vars

\* one model id under one deployment configuration, resolved once
InitModel ==
  /\ tr = [i \in Inst |-> Absent]
  /\ inp = [i \in Inst |-> <<>>]
  /\ NormIdle
  /\ RespIdle
  /\ ToolsIdle
  /\ ModelIdle

NextModel == AddWord \/ SetOverride \/ ResolveModel

SpecModel == InitModel /\ [][NextModel]_vars

\* one request to POST /v1/messages under one deployment
InitHandler ==
  /\ tr = [i \in Inst |-> Absent]
  /\ inp = [i \in Inst |-> <<>>]
  /\ NormIdle
  /\ RespIdle
  /\ ToolsIdle
  /\ modelId = <<>>
  /\ env \in Deployments
  /\ resolved = <<>>
  /\ ANTHROPIC_API_KEY = <<>>

NextHandler == SetApiKey \/ DeclareTool \/ Dispatch

SpecHandler == InitHandler /\ [][NextHandler]_vars

====
